---- MODULE Spec2Model ----
(***************************************************************************)
(* clslang: the transactional source cursor (clslang/srcitr.py) and the    *)
(* parser-combinator engine built on it (clslang/symbol.py).               *)
(*                                                                         *)
(* Two specifications share the cursor operators:                          *)
(*   SpecItr  a client that drives SrcItr objects directly, the way        *)
(*            test_itr does, with next() allowed on every live cursor;     *)
(*   Spec     SymbolABC.trystr evaluating a grammar on an input, one       *)
(*            tryitr / itr_for_try step per action;                        *)
(*   SpecCalls  a client that calls trystr on the same symbol object       *)
(*            again and again, with OR.add calls in between.               *)
(***************************************************************************)
EXTENDS Integers, Sequences, FiniteSets, TLC

VARIABLES
    seq,      \* SrcItr.seq: the input sequence (shared by every cursor)
    itr,      \* the live SrcItr objects: itr[k] = [pos, child]; child = 0 is None
    att,      \* history: one record per open attempt, innermost last
    last,     \* history: the last SrcItr operation of the cursor client
    gram,     \* the grammar: an arena of symbol nodes, the root is the last one
    use_all,  \* trystr's use_all argument
    stk,      \* the active tryitr calls, innermost last
    ret,      \* what the tryitr call that just ended gave its caller
    result,   \* what trystr gave its caller
    ev,       \* history: the tryitr call that ended last
    todo,     \* the OR.add calls the client has yet to make, in order
    hist,     \* history of the client: the grammar as constructed, the add
              \* calls made, the first trystr call and its outcome
    auto      \* automaton.py: the state_try_seq generator and its table

vars == <<seq, itr, att, last, gram, use_all, stk, ret, result, ev, todo, hist,
          auto>>

----------------------------------------------------------------------------
(* Bounds *)

MaxItrLen == 2    \* longest input of the cursor client
MaxDepth == 3     \* most attempts the cursor client keeps open at once
MaxLen == 5       \* longest input given to trystr
MaxMin == 2       \* largest nmin of the Rep grammars
MaxMax == 4       \* largest nmax of the Rep grammars
MaxStr == 2       \* longest literal of the ExplStr grammars
MaxCallLen == 3   \* longest input of the client that calls trystr repeatedly
\* The items of itertools.count() a loop's counters and records are kept
\* for: one more than a loop that consumes input in every iteration can
\* take.  Later iterations leave them as they are.
MaxIter == MaxLen + 2

\* test_itr's sequence; the cursor client runs on its prefixes.
ItrText == <<"a", "b", "c", "d", "e", "f", "g", "h", "i", "j", "k">>

RECURSIVE SeqsUpTo(_, _)
SeqsUpTo(S, n) ==
    IF n = 0 THEN {<<>>}
    ELSE LET shorter == SeqsUpTo(S, n - 1)
         IN  shorter \cup {Append(s, c) : s \in shorter, c \in S}

----------------------------------------------------------------------------
(* clslang/srcitr.py: SrcItr *)

\* SrcItr.__init__(seq, pos): child is None
NewItr(p) == [pos |-> p, child |-> 0]

\* SrcItr.is_eof
IsEof(it, k) == it[k].pos >= Len(seq)

\* (mutant) the child starts at the beginning of the sequence
EnterItrAtZero(it, k) ==
    Append([it EXCEPT ![k].child = Len(it) + 1], NewItr(0))

\* SrcItr.__enter__ on cursor k: a new cursor on the same sequence at the
\* same position becomes k's child.
EnterItr(it, k) ==
    Append([it EXCEPT ![k].child = Len(it) + 1], NewItr(it[k].pos))

\* (mutant) the position is advanced before the end-of-input test
NextItrSkip(it, k) ==
    IF IsEof(it, k)
    THEN [it |-> [it EXCEPT ![k].pos = @ + 1], ok |-> FALSE, ch |-> ""]
    ELSE [it |-> [it EXCEPT ![k].pos = @ + 1], ok |-> TRUE,
          ch |-> seq[it[k].pos + 1]]

\* SrcItr.__next__ on cursor k: [it, ok, ch]; ok = FALSE is StopSrcItr.
NextItr(it, k) ==
    IF IsEof(it, k)
    THEN [it |-> it, ok |-> FALSE, ch |-> ""]
    ELSE [it |-> [it EXCEPT ![k].pos = @ + 1], ok |-> TRUE,
          ch |-> seq[it[k].pos + 1]]

\* (mutant) the parent takes the child's position whatever ended the block
ExitItrCommitAlways(it, k, exc) ==
    IF it[k].child # 0
    THEN LET c == it[k].child
         IN  SubSeq([it EXCEPT ![k].pos = it[c].pos, ![k].child = 0], 1, c - 1)
    ELSE it

\* (mutant) the parent never takes the child's position
ExitItrNoCommit(it, k, exc) ==
    IF it[k].child # 0
    THEN SubSeq([it EXCEPT ![k].child = 0], 1, it[k].child - 1)
    ELSE it

\* SrcItr.__exit__ on cursor k; exc = TRUE when the block raised.  The child
\* object (and whatever it opened) is deleted.
ExitItr(it, k, exc) ==
    IF it[k].child # 0
    THEN LET c == it[k].child
             moved == [it EXCEPT ![k].pos = IF exc THEN @ ELSE it[c].pos,
                                 ![k].child = 0]
         IN  SubSeq(moved, 1, c - 1)
    ELSE it

\* History kept beside the cursors: the attempt opened on cursor k.
OpenAtt(a, it, k) ==
    Append(a, [par |-> k, pos0 |-> it[k].pos, own |-> FALSE, inner |-> FALSE])
\* History: the attempts that survive closing the attempt of cursor k; the
\* attempt whose child is k notes a commit nested inside it.
CloseAtt(a, k, exc) ==
    LET rest == SelectSeq(a, LAMBDA r : r.par < k)
    IN  [j \in DOMAIN rest |->
           IF rest[j].par = k - 1 /\ ~exc
           THEN [rest[j] EXCEPT !.inner = TRUE] ELSE rest[j]]
\* History: cursor k advanced by its own next() while its attempt is open.
OwnNext(a, k) == [j \in DOMAIN a |->
                    IF a[j].par = k THEN [a[j] EXCEPT !.own = TRUE] ELSE a[j]]

----------------------------------------------------------------------------
(* The cursor client: test_itr generalised *)

NoLast == [op |-> "init", k |-> 0, exc |-> FALSE, ok |-> TRUE, ch |-> "",
           before |-> <<>>, pos0 |-> 0, own |-> FALSE, inner |-> FALSE]

\* History: no trystr call has ended yet.
NoRef == [set |-> FALSE, gram |-> <<>>, seq |-> <<>>,
          out |-> [st |-> "none", exc |-> "", vals |-> <<>>]]
\* History of a client that has done nothing yet.
NoHist == [gram0 |-> <<>>, adds |-> <<>>, used |-> 0, ref |-> NoRef,
           seen |-> {}]

\* No state_try_seq generator has been created.
NoAuto == [st |-> "none"]

\* Parser state while the cursor client runs.
Idle == /\ todo = <<>>
        /\ auto = NoAuto
        /\ hist = NoHist
        /\ gram = <<>>
        /\ use_all = FALSE
        /\ stk = <<>>
        /\ ret = [st |-> "none", exc |-> "", vals |-> <<>>]
        /\ result = [st |-> "idle", exc |-> "", vals |-> <<>>]
        /\ ev = [st |-> "none"]

InitItr ==
    /\ seq \in {SubSeq(ItrText, 1, n) : n \in 0..MaxItrLen}
    /\ itr = <<NewItr(0)>>
    /\ att = <<>>
    /\ last = NoLast
    /\ Idle

\* next(cursor k), for any live cursor
ItrNext(k) ==
    /\ k \in DOMAIN itr
    /\ LET r == NextItr(itr, k)
       IN  /\ itr' = r.it
           /\ att' = IF r.ok THEN OwnNext(att, k) ELSE att
           /\ last' = [NoLast EXCEPT !.op = "next", !.k = k, !.ok = r.ok,
                                     !.ch = r.ch, !.before = itr]
    /\ UNCHANGED <<seq, gram, use_all, stk, ret, result, ev, todo, hist, auto>>

\* cursor.is_eof()
ItrIsEof(k) ==
    /\ k \in DOMAIN itr
    /\ last' = [NoLast EXCEPT !.op = "eof", !.k = k, !.ok = IsEof(itr, k),
                              !.before = itr]
    /\ UNCHANGED <<seq, itr, att, gram, use_all, stk, ret, result, ev, todo,
                   hist, auto>>

\* `with cursor as child:` on the innermost cursor
ItrEnter ==
    /\ Len(itr) <= MaxDepth
    /\ LET k == Len(itr)
       IN  /\ itr' = EnterItr(itr, k)
           /\ att' = OpenAtt(att, itr, k)
           /\ last' = [NoLast EXCEPT !.op = "enter", !.k = k, !.before = itr]
    /\ UNCHANGED <<seq, gram, use_all, stk, ret, result, ev, todo, hist, auto>>

\* the end of the innermost `with` block, by an exception or not
ItrExit(exc) ==
    /\ Len(itr) >= 2
    /\ LET k == Len(itr) - 1
       IN  /\ itr' = ExitItr(itr, k, exc)
           /\ att' = CloseAtt(att, k, exc)
           /\ last' = [NoLast EXCEPT !.op = "exit", !.k = k, !.exc = exc,
                                     !.before = itr,
                                     !.pos0 = att[Len(att)].pos0,
                                     !.own = att[Len(att)].own,
                                     !.inner = att[Len(att)].inner]
    /\ UNCHANGED <<seq, gram, use_all, stk, ret, result, ev, todo, hist, auto>>

NextItrClient ==
    \/ \E k \in 1..(MaxDepth + 1) : ItrNext(k)
    \/ \E k \in 1..(MaxDepth + 1) : ItrIsEof(k)
    \/ ItrEnter
    \/ \E exc \in BOOLEAN : ItrExit(exc)

SpecItr == InitItr /\ [][NextItrClient]_vars

----------------------------------------------------------------------------
(* clslang/symbol.py: result values *)

\* A Python str (a character is a str of length one), tuple, list or None.
StrVal(cs) == [k |-> "str", s |-> cs, e |-> <<>>]
TupVal(vs) == [k |-> "tuple", s |-> <<>>, e |-> vs]
ListVal(vs) == [k |-> "list", s |-> <<>>, e |-> vs]
NoneVal == [k |-> "None", s |-> <<>>, e |-> <<>>]
\* the value a maker `lambda _: value` returns, as the maker CustomStr passes
ConstVal == [k |-> "const", s |-> <<>>, e |-> <<>>]
\* the Unspecified object, the default of Opt's none_val
Unspecified == [k |-> "Unspecified", s |-> <<>>, e |-> <<>>]

RECURSIVE Flatten(_)
\* the concatenation of a sequence of sequences
Flatten(ss) == IF ss = <<>> THEN <<>> ELSE Head(ss) \o Flatten(Tail(ss))

\* iter(v): the items Python iterates over in v; a str gives its characters
ItemsOf(v) == IF v.k = "str" THEN [j \in DOMAIN v.s |-> StrVal(<<v.s[j]>>)]
              ELSE v.e

\* What a tryitr call gives its caller: the values it yielded, or the
\* exception it raised.
NoRet == [st |-> "none", exc |-> "", vals |-> <<>>]
Ok(vals) == [st |-> "ok", exc |-> "", vals |-> vals]
Raise(e) == [st |-> "exc", exc |-> e, vals |-> <<>>]

\* (mutant) only SymbolTryFailed is caught
IsTryFailureStrict(r) == r.st = "exc" /\ r.exc = "SymbolTryFailed"

\* The two exceptions Rep and OR catch.
IsTryFailure(r) == r.st = "exc" /\ r.exc \in {"SymbolTryFailed", "StopSrcItr"}

----------------------------------------------------------------------------
(* clslang/symbol.py: the symbol classes, as nodes of an arena.  Every      *)
(* constructor appends the node it builds (after the nodes its __init__     *)
(* builds) to the arena g; a node refers to other nodes by index.           *)

Node(kind, res) ==
    [kind |-> kind, res |-> res, chs |-> {}, neg |-> FALSE, esc |-> "",
     kids |-> <<>>, nmin |-> -1, nmax |-> -1, nores |-> FALSE,
     oneres |-> FALSE, noneval |-> Unspecified, maker |-> ""]

\* Char(ch): OneCharABC, NoResSymbol
Char(g, ch) == Append(g, [Node("char", "no") EXCEPT !.chs = {ch}])
\* ExplChar(ch): OneCharABC, ResCharABC
ExplChar(g, ch) == Append(g, [Node("char", "one") EXCEPT !.chs = {ch}])
\* CharNot(ch)
CharNot(g, ch) ==
    Append(g, [Node("char", "one") EXCEPT !.chs = {ch}, !.neg = TRUE])
\* Chars(*chs)
Chars(g, chs) == Append(g, [Node("char", "one") EXCEPT !.chs = chs])
\* CharsNot(*chs)
CharsNot(g, chs) ==
    Append(g, [Node("char", "one") EXCEPT !.chs = chs, !.neg = TRUE])
\* CharNotWithEscape(ch, escape_char)
CharNotWithEscape(g, ch, esc) ==
    Append(g, [Node("char", "one") EXCEPT !.chs = {ch}, !.neg = TRUE,
                                          !.esc = esc])
\* CharsNotWithEscape(*chs, escape_char=...)
CharsNotWithEscape(g, chs, esc) ==
    Append(g, [Node("char", "one") EXCEPT !.chs = chs, !.neg = TRUE,
                                          !.esc = esc])

\* isinstance(sym, NoResSymbol) or (isinstance(sym, AnyTypeResSymbol) and
\* sym.is_no_res), the test of Seq.__init__
IsNoRes(nd) == nd.res = "no" \/ (nd.res = "any" /\ nd.nores)

\* (mutant) every child counts as contributing a value
NSymsAll(g, kids) == Len(kids)

\* _nsyms of Seq.__init__: the children that contribute a value
NSyms(g, kids) == Cardinality({j \in DOMAIN kids : ~IsNoRes(g[kids[j]])})

\* Seq(*symbols): SeqABC, AnyTypeResSymbol
SeqOf(g, kids) ==
    Append(g, [Node("seq", "any") EXCEPT !.kids = kids,
                                         !.nores = (NSyms(g, kids) = 0),
                                         !.oneres = (NSyms(g, kids) = 1)])
\* MultiSeq(*symbols)
MultiSeq(g, kids) == Append(g, [Node("seq", "multi") EXCEPT !.kids = kids])
\* Ignore(*symbols): NoResSymbol, Seq
Ignore(g, kids) == Append(g, [Node("seq", "no") EXCEPT !.kids = kids])

RECURSIVE ExplChars(_, _)
\* StrABC.__init__: one ExplChar per character of chseq
ExplChars(g, cs) ==
    IF cs = <<>> THEN g ELSE ExplChars(ExplChar(g, Head(cs)), Tail(cs))

\* the indices of the n nodes appended last to g
LastN(g, n) == [j \in 1..n |-> Len(g) - n + j]

\* Str(chseq): StrABC, NoResSymbol
Str(g, cs) ==
    LET g1 == ExplChars(g, cs)
    IN  Append(g1, [Node("seq", "no") EXCEPT !.kids = LastN(g1, Len(cs))])
\* ExplStr(chseq): StrABC, StrMaker
ExplStr(g, cs) ==
    LET g1 == ExplChars(g, cs)
    IN  Append(g1, [Node("seq", "str") EXCEPT !.kids = LastN(g1, Len(cs))])

\* to_symbol(symbol) for a str: Char for one character, Str otherwise
ToSymbol(g, cs) == IF Len(cs) = 1 THEN Char(g, cs[1]) ELSE Str(g, cs)

\* RepABC.__init__: child_symbol = Seq(*symbols), min, max (-1 is None)
RepABC(g, kids, res, nmin, nmax) ==
    LET g1 == SeqOf(g, kids)
    IN  Append(g1, [Node("rep", res) EXCEPT !.kids = <<Len(g1)>>,
                                            !.nmin = nmin, !.nmax = nmax])
\* Rep(*symbols, nmin, nmax): RepABC, ManyResSymbol
Rep(g, kids, nmin, nmax) == RepABC(g, kids, "many", nmin, nmax)
\* IgnoreRep(*symbols, nmin, nmax): RepABC, NoResSymbol
IgnoreRep(g, kids, nmin, nmax) == RepABC(g, kids, "no", nmin, nmax)
\* RepStr(*symbols, nmin=1, nmax): RepABC, StrMaker
RepStr(g, kids, nmin, nmax) == RepABC(g, kids, "str", nmin, nmax)
\* Opt(*symbols, none_val): Rep with nmax = 1
Opt(g, kids, noneval) ==
    LET g1 == RepABC(g, kids, "opt", -1, 1)
    IN  [g1 EXCEPT ![Len(g1)].noneval = noneval]
\* IgnoreOpt(*symbols): IgnoreRep with nmax = 1
IgnoreOpt(g, kids) == RepABC(g, kids, "no", -1, 1)

\* the keyword maker=mk of the symbol constructed last
WithMaker(g, mk) == [g EXCEPT ![Len(g)].maker = mk]

\* OR(*symbols): OneResSymbol
OR(g, kids) == Append(g, [Node("or", "one") EXCEPT !.kids = kids])
\* Except(sym_base, sym_except): OneResSymbol; kids = <<base, except>>
Except(g, base, excl) ==
    Append(g, [Node("except", "one") EXCEPT !.kids = <<base, excl>>])
\* Chain(*symbols, maker): SeqABC, ManyResSymbol
Chain(g, kids, maker) ==
    Append(g, [Node("seq", "chain") EXCEPT !.kids = kids, !.maker = maker])

\* (mutant) the optional last element without a separator is left out
RepSepNoTail(g, val, sep, maker) ==
    LET g1 == ToSymbol(g, sep)
        g2 == Rep(g1, <<val, Len(g1)>>, -1, -1)
        g4 == Chain(g2, <<Len(g2)>>, maker)
    IN  SeqOf(g4, <<Len(g4)>>)

\* RepSep(val, sep=sep, maker): Seq(Chain(Rep(val, sep), Opt(val), maker)),
\* sep being a str
RepSep(g, val, sep, maker) ==
    LET g1 == ToSymbol(g, sep)
        g2 == Rep(g1, <<val, Len(g1)>>, -1, -1)
        g3 == Opt(g2, <<val>>, Unspecified)
        g4 == Chain(g3, <<Len(g2), Len(g3)>>, maker)
    IN  SeqOf(g4, <<Len(g4)>>)

----------------------------------------------------------------------------
(* clslang/symbol.py: make_from_itr, the value a symbol makes of the values *)
(* its itr_for_try yielded                                                  *)

\* OneResSymbol.make_from_itr with preprocess_one_valitr: list(valitr)[0]
MakeOne(vals) ==
    IF vals = <<>> THEN Raise("IndexError") ELSE Ok(<<vals[1]>>)

\* (mutant) the first value only, as OneResSymbol.preprocess_one_valitr
MakeStrFirst(vals) ==
    IF vals = <<>> THEN Raise("IndexError") ELSE Ok(<<vals[1]>>)

\* StrMaker.preprocess_one_valitr: ''.join(valitr)
MakeStr(vals) ==
    IF \E j \in DOMAIN vals : vals[j].k # "str"
    THEN Raise("TypeError")
    ELSE Ok(<<StrVal(Flatten([j \in DOMAIN vals |-> vals[j].s]))>>)

\* MultiResSymbol.make_from_itr without a maker: tuple(valitr)
MakeMulti(vals) == Ok(<<TupVal(vals)>>)

\* ManyResSymbol.make_from_itr: tuple(valitr), or maker(valitr) with the
\* maker `list` or a maker `lambda _: value`
MakeMany(nd, vals) ==
    Ok(<<CASE nd.maker = "list" -> ListVal(vals)
           [] nd.maker = "const" -> ConstVal
           [] OTHER -> TupVal(vals)>>)

\* (mutant) the items of the items are chained as well
MakeChainDeep(nd, vals) ==
    IF \E j \in DOMAIN vals : vals[j].k = "None"
    THEN Raise("TypeError")
    ELSE LET items == Flatten([j \in DOMAIN vals |-> ItemsOf(vals[j])])
         IN  MakeMany(nd, Flatten([j \in DOMAIN items |-> ItemsOf(items[j])]))

\* Chain.preprocess_multi_valitr: itertools.chain.from_iterable(valitr)
MakeChain(nd, vals) ==
    IF \E j \in DOMAIN vals : vals[j].k = "None"
    THEN Raise("TypeError")
    ELSE MakeMany(nd, Flatten([j \in DOMAIN vals |-> ItemsOf(vals[j])]))

\* (mutant) none_val is ignored
MakeOptTuple(nd, vals) == Ok(<<TupVal(vals)>>)

\* Opt.make_from_itr: without a maker none_val decides, with one it is
\* maker(valitr)
MakeOpt(nd, vals) ==
    IF nd.maker # "" THEN MakeMany(nd, vals)
    ELSE IF nd.noneval = Unspecified THEN Ok(<<TupVal(vals)>>)
    ELSE IF vals = <<>> THEN Ok(<<nd.noneval>>)
    ELSE IF Len(vals) # 1 THEN Raise("AssertionError")
    ELSE Ok(<<vals[1]>>)

\* tryitr's result for a symbol whose itr_for_try ended normally having
\* yielded vals: NoResSymbol.tryitr, ResSymbolABC.tryitr or
\* AnyTypeResSymbol.tryitr with the class's make_from_itr
MakeFromItr(nd, vals) ==
    CASE nd.res = "no"    -> Ok(<<>>)
      [] nd.res = "one"   -> MakeOne(vals)
      [] nd.res = "str"   -> MakeStr(vals)
      [] nd.res = "multi" -> MakeMulti(vals)
      [] nd.res = "many"  -> MakeMany(nd, vals)
      [] nd.res = "chain" -> MakeChain(nd, vals)
      [] nd.res = "opt"   -> MakeOpt(nd, vals)
      [] nd.res = "any"   -> IF nd.nores THEN Ok(<<>>)
                             ELSE IF nd.oneres THEN MakeOne(vals)
                             ELSE MakeMulti(vals)

----------------------------------------------------------------------------
(* clslang/symbol.py: trystr, one action per step of tryitr / itr_for_try *)

\* One active tryitr call: the symbol, the cursor it was given (c), where
\* its code stands (pc), the loop variable i and the number of items taken
\* from the loop's iterator (n), the values yielded so far.  History: the
\* cursor's position at entry (p0), the calls it made (log), the attempts it
\* opened (op) and closed (cl).
Frame(sym, c, it) ==
    [sym |-> sym, c |-> c, pc |-> "start", i |-> 0, n |-> 0, vals |-> <<>>,
     p0 |-> it[c].pos, log |-> <<>>, op |-> 0, cl |-> 0]

NoEv == [st |-> "none", exc |-> "", vals |-> <<>>, sym |-> 0, kind |-> "",
         c |-> 0, p0 |-> 0, p1 |-> 0, child |-> 0, live |-> 0, i |-> 0,
         n |-> 0, log |-> <<>>, op |-> 0, cl |-> 0, depth |-> 0]

\* History: the tryitr call of frame f ended with r, the cursors being it.
EvOf(f, r, it) ==
    [st |-> r.st, exc |-> r.exc, vals |-> r.vals, sym |-> f.sym,
     kind |-> gram[f.sym].kind, c |-> f.c, p0 |-> f.p0, p1 |-> it[f.c].pos,
     child |-> it[f.c].child, live |-> Len(it), i |-> f.i, n |-> f.n,
     log |-> f.log, op |-> f.op, cl |-> f.cl, depth |-> Len(stk)]

\* History: the call of symbol `sym`, started on cursor c at position `from`,
\* ended with r leaving that cursor at `to`.
LogEntry(sym, c, from, r, to) ==
    [sym |-> sym, c |-> c, from |-> from, st |-> r.st, exc |-> r.exc,
     to |-> to, vals |-> r.vals]

Top == stk[Len(stk)]
TopNode == gram[Top.sym]
Running == result.st = "run" /\ stk # <<>>

\* History of the cursor operations the parser performs.
LastOf(op, k, exc, it, a) ==
    [NoLast EXCEPT !.op = op, !.k = k, !.exc = exc, !.before = it,
                   !.pos0 = IF op = "exit" /\ a # <<>> THEN a[Len(a)].pos0
                            ELSE 0]
NoCursorOp == [NoLast EXCEPT !.op = "none"]

\* The tryitr call on top ends with r.
Return(f, r, it, a, l) ==
    /\ stk' = SubSeq(stk, 1, Len(stk) - 1)
    /\ ret' = r
    /\ ev' = EvOf(f, r, it)
    /\ itr' = it
    /\ att' = a
    /\ last' = l

\* The call on top goes on as f with the cursors it.
Continue(f, it, a, l) ==
    /\ stk' = [stk EXCEPT ![Len(stk)] = f]
    /\ ret' = NoRet
    /\ ev' = ev
    /\ itr' = it
    /\ att' = a
    /\ last' = l

\* The call on top, now f, calls sym.tryitr on cursor c.
Call(f, sym, c, it, a, l) ==
    /\ stk' = Append([stk EXCEPT ![Len(stk)] = f], Frame(sym, c, it))
    /\ ret' = NoRet
    /\ ev' = ev
    /\ itr' = it
    /\ att' = a
    /\ last' = l

\* CharABC.is_valid_char of OneCharABC, CharNot, Chars and CharsNot
IsValidChar(nd, ch) == IF nd.neg THEN ch \notin nd.chs ELSE ch \in nd.chs

\* (mutant) the escape character is treated as any other character
CharItrNoEscape(nd, it, c) ==
    LET r1 == NextItr(it, c)
    IN  IF ~r1.ok THEN [it |-> r1.it, r |-> Raise("StopSrcItr")]
        ELSE IF IsValidChar(nd, r1.ch)
        THEN [it |-> r1.it, r |-> Ok(<<StrVal(<<r1.ch>>)>>)]
        ELSE [it |-> r1.it, r |-> Raise("SymbolTryFailed")]

\* CharABC.itr_for_try, and CharWithEscapeABC.itr_for_try for a node with an
\* escape character: [it, r], the cursors afterwards and what was yielded or
\* raised.
CharItr(nd, it, c) ==
    LET r1 == NextItr(it, c)
    IN  IF ~r1.ok THEN [it |-> r1.it, r |-> Raise("StopSrcItr")]
        ELSE IF nd.esc # "" /\ r1.ch = nd.esc
        THEN LET r2 == NextItr(r1.it, c)
             IN  IF ~r2.ok THEN [it |-> r2.it, r |-> Raise("StopSrcItr")]
                 ELSE [it |-> r2.it, r |-> Ok(<<StrVal(<<r2.ch>>)>>)]
        ELSE IF IsValidChar(nd, r1.ch)
        THEN [it |-> r1.it, r |-> Ok(<<StrVal(<<r1.ch>>)>>)]
        ELSE [it |-> r1.it, r |-> Raise("SymbolTryFailed")]

\* tryitr of a character symbol
TryChar ==
    /\ Running /\ TopNode.kind = "char"
    /\ LET x == CharItr(TopNode, itr, Top.c)
           r == IF x.r.st = "ok" THEN MakeFromItr(TopNode, x.r.vals) ELSE x.r
       IN  Return(Top, r, x.it, att, LastOf("next", Top.c, FALSE, itr, att))
    /\ UNCHANGED <<seq, gram, use_all, result, todo, hist, auto>>

\* (mutant) every maker iterates over the values it is given
IgnoresItrNever(nd) == FALSE

\* ManyResSymbol.make_from_itr / Opt.make_from_itr: `self.maker(_valitr)`
\* with a maker that returns without iterating over _valitr, the generator
\* itr_for_try(srcitr); the others (tuple, list, `*_valitr`, list(valitr)[0],
\* ''.join) take every item
IgnoresItr(nd) == nd.res \in {"many", "chain", "opt"} /\ nd.maker = "const"

\* ResSymbolABC.tryitr: the maker has returned and the generator it was given
\* was never started
MakerOnly ==
    /\ Running /\ ret.st = "none"
    /\ TopNode.kind \in {"seq", "rep"} /\ IgnoresItr(TopNode)
    /\ Return(Top, MakeFromItr(TopNode, <<>>), itr, att, NoCursorOp)
    /\ UNCHANGED <<seq, gram, use_all, result, todo, hist, auto>>

\* (mutant) the symbols are tried from the last to the first
SeqSymbolReversed(nd, i) == nd.kids[Len(nd.kids) - i]

\* SeqABC.itr_for_try: the symbol `for i, sym in enumerate(self.symbols)`
\* gives after i items
SeqSymbol(nd, i) == nd.kids[i + 1]

\* SeqABC.itr_for_try: the next symbol of the sequence is tried on the same
\* cursor
SeqCall ==
    /\ Running /\ TopNode.kind = "seq" /\ ret.st = "none"
    /\ ~IgnoresItr(TopNode)
    /\ Top.i < Len(TopNode.kids)
    /\ Call(Top, SeqSymbol(TopNode, Top.i), Top.c, itr, att, NoCursorOp)
    /\ UNCHANGED <<seq, gram, use_all, result, todo, hist, auto>>

\* SeqABC.itr_for_try: the loop over the symbols is over
SeqDone ==
    /\ Running /\ TopNode.kind = "seq" /\ ret.st = "none"
    /\ ~IgnoresItr(TopNode)
    /\ Top.i >= Len(TopNode.kids)
    /\ Return(Top, MakeFromItr(TopNode, Top.vals), itr, att, NoCursorOp)
    /\ UNCHANGED <<seq, gram, use_all, result, todo, hist, auto>>

\* SeqABC.itr_for_try: `yield from sym.tryitr(chitr)` has ended
SeqResume ==
    /\ Running /\ TopNode.kind = "seq" /\ ret.st # "none"
    /\ LET f == [Top EXCEPT !.log = Append(@,
                     LogEntry(ev.sym, ev.c, ev.p0, ret, ev.p1))]
       IN  IF ret.st = "ok"
           THEN Continue([f EXCEPT !.i = @ + 1, !.vals = @ \o ret.vals],
                         itr, att, NoCursorOp)
           ELSE Return(f, ret, itr, att, NoCursorOp)
    /\ UNCHANGED <<seq, gram, use_all, result, todo, hist, auto>>

\* (mutant) the number of successful iterations is not compared with min
RepEndNoMin(nd, f) == MakeFromItr(nd, f.vals)

\* (mutant) the loop variable is compared with min + 1
RepEndOffByOne(nd, f) ==
    IF nd.nmin # -1 /\ f.i < nd.nmin + 1 THEN Raise("SymbolTryFailed")
    ELSE MakeFromItr(nd, f.vals)

\* RepABC.itr_for_try after the loop: `if self.min is not None and
\* i < self.min: raise SymbolTryFailed()`, else the generator ends
RepEnd(nd, f) ==
    IF nd.nmin # -1 /\ f.i < nd.nmin THEN Raise("SymbolTryFailed")
    ELSE MakeFromItr(nd, f.vals)

\* (mutant) max is ignored
RepMayIterateAlways(nd, f) == TRUE

\* RepABC.itr_for_try: `for i in itertools.count() if self.max is None else
\* range(self.max)` has another item
RepMayIterate(nd, f) == nd.nmax = -1 \/ f.n < nd.nmax

\* RepABC.itr_for_try: the loop takes its next i, opens an attempt and tries
\* child_symbol in it
RepIter ==
    /\ Running /\ TopNode.kind = "rep" /\ ret.st = "none"
    /\ ~IgnoresItr(TopNode)
    /\ RepMayIterate(TopNode, Top)
    /\ LET f == [Top EXCEPT !.i = Top.n,
                            !.n = IF @ < MaxIter THEN @ + 1 ELSE @,
                            !.op = @ + 1]
           it == EnterItr(itr, Top.c)
       IN  Call(f, TopNode.kids[1], Len(it), it, OpenAtt(att, itr, Top.c),
                LastOf("enter", Top.c, FALSE, itr, att))
    /\ UNCHANGED <<seq, gram, use_all, result, todo, hist, auto>>

\* RepABC.itr_for_try: range(self.max) is exhausted
RepExhausted ==
    /\ Running /\ TopNode.kind = "rep" /\ ret.st = "none"
    /\ ~IgnoresItr(TopNode)
    /\ ~RepMayIterate(TopNode, Top)
    /\ Return(Top, RepEnd(TopNode, Top), itr, att, NoCursorOp)
    /\ UNCHANGED <<seq, gram, use_all, result, todo, hist, auto>>

\* History: the frame after the attempt it opened was closed.
Closed(f) ==
    [f EXCEPT !.log = Append(@, LogEntry(ev.sym, ev.c, ev.p0, ret, ev.p1)),
              !.cl = @ + 1]

\* The Rep frame after an iteration that yielded vals; of the iterations
\* after the first MaxIter no record is kept.
RepKept(f, vals) ==
    IF f.i >= MaxIter THEN [f EXCEPT !.op = @ - 1]
    ELSE [Closed(f) EXCEPT !.vals = @ \o vals]

\* (mutant) SymbolTryFailed and StopSrcItr are caught inside the `with` block,
\* which is then left by `break` without the attempt being closed
RepResumeLeak ==
    /\ Running /\ TopNode.kind = "rep" /\ ret.st # "none"
    /\ LET exc == ret.st = "exc"
           it == ExitItr(itr, Top.c, exc)
           a == CloseAtt(att, Top.c, exc)
           l == LastOf("exit", Top.c, exc, itr, att)
           f == Closed(Top)
       IN  IF ret.st = "ok"
           THEN Continue(RepKept(Top, ret.vals), it, a, l)
           ELSE IF IsTryFailure(ret)
           THEN Return(Top, RepEnd(TopNode, Top), itr, att, NoCursorOp)
           ELSE Return(f, ret, it, a, l)
    /\ UNCHANGED <<seq, gram, use_all, result, todo, hist, auto>>

\* RepABC.itr_for_try: the `with chitr as _chitr` block of an iteration ends;
\* SymbolTryFailed and StopSrcItr break the loop
RepResume ==
    /\ Running /\ TopNode.kind = "rep" /\ ret.st # "none"
    /\ LET exc == ret.st = "exc"
           it == ExitItr(itr, Top.c, exc)
           a == CloseAtt(att, Top.c, exc)
           l == LastOf("exit", Top.c, exc, itr, att)
           f == Closed(Top)
       IN  IF ret.st = "ok"
           THEN Continue(RepKept(Top, ret.vals), it, a, l)
           ELSE IF IsTryFailure(ret)
           THEN Return(f, RepEnd(TopNode, f), it, a, l)
           ELSE Return(f, ret, it, a, l)
    /\ UNCHANGED <<seq, gram, use_all, result, todo, hist, auto>>

\* (mutant) the alternatives are tried from the last to the first
OrSymbolReversed(nd, i) == nd.kids[Len(nd.kids) - i]

\* OR.itr_for_try: the symbol `for symbol in self.symbols` gives after i items
OrSymbol(nd, i) == nd.kids[i + 1]

\* OR.itr_for_try: the next alternative is tried in an attempt of its own
OrAlt ==
    /\ Running /\ TopNode.kind = "or" /\ ret.st = "none"
    /\ Top.i < Len(TopNode.kids)
    /\ LET f == [Top EXCEPT !.op = @ + 1]
           it == EnterItr(itr, Top.c)
       IN  Call(f, OrSymbol(TopNode, Top.i), Len(it), it,
                OpenAtt(att, itr, Top.c),
                LastOf("enter", Top.c, FALSE, itr, att))
    /\ UNCHANGED <<seq, gram, use_all, result, todo, hist, auto>>

\* OR.itr_for_try: no alternative is left
OrFail ==
    /\ Running /\ TopNode.kind = "or" /\ ret.st = "none"
    /\ Top.i >= Len(TopNode.kids)
    /\ Return(Top, Raise("SymbolTryFailed"), itr, att, NoCursorOp)
    /\ UNCHANGED <<seq, gram, use_all, result, todo, hist, auto>>

\* OR.itr_for_try: the `with chitr as _chitr` block of an alternative ends,
\* by `return` or by an exception; SymbolTryFailed and StopSrcItr are passed
\* over
OrResume ==
    /\ Running /\ TopNode.kind = "or" /\ ret.st # "none"
    /\ LET exc == ret.st = "exc"
           it == ExitItr(itr, Top.c, exc)
           a == CloseAtt(att, Top.c, exc)
           l == LastOf("exit", Top.c, exc, itr, att)
           f == Closed(Top)
       IN  IF ret.st = "ok"
           THEN Return(f, MakeFromItr(TopNode, ret.vals), it, a, l)
           ELSE IF IsTryFailure(ret)
           THEN Continue([f EXCEPT !.i = @ + 1], it, a, l)
           ELSE Return(f, ret, it, a, l)
    /\ UNCHANGED <<seq, gram, use_all, result, todo, hist, auto>>

\* Except.itr_for_try: sym_except is tried in an attempt
ExceptLook ==
    /\ Running /\ TopNode.kind = "except" /\ ret.st = "none"
    /\ Top.pc = "start"
    /\ LET f == [Top EXCEPT !.pc = "look", !.op = @ + 1]
           it == EnterItr(itr, Top.c)
       IN  Call(f, TopNode.kids[2], Len(it), it, OpenAtt(att, itr, Top.c),
                LastOf("enter", Top.c, FALSE, itr, att))
    /\ UNCHANGED <<seq, gram, use_all, result, todo, hist, auto>>

\* Except.itr_for_try: the `with` block around sym_except ends.  Ended
\* without an exception (`else:`) SymbolTryFailed is raised; on
\* SymbolTryFailed sym_base is tried on the cursor Except was given; any
\* other exception goes to the caller.
ExceptResume ==
    /\ Running /\ TopNode.kind = "except" /\ ret.st # "none"
    /\ Top.pc = "look"
    /\ LET exc == ret.st = "exc"
           it == ExitItr(itr, Top.c, exc)
           a == CloseAtt(att, Top.c, exc)
           l == LastOf("exit", Top.c, exc, itr, att)
           f == Closed(Top)
       IN  IF ret.st = "ok"
           THEN Return(f, Raise("SymbolTryFailed"), it, a, l)
           ELSE IF ret.exc = "SymbolTryFailed"
           THEN Call([f EXCEPT !.pc = "base"], TopNode.kids[1], Top.c, it, a, l)
           ELSE Return(f, ret, it, a, l)
    /\ UNCHANGED <<seq, gram, use_all, result, todo, hist, auto>>

\* Except.itr_for_try: `yield from self.sym_base.tryitr(chitr)` has ended
ExceptBase ==
    /\ Running /\ TopNode.kind = "except" /\ ret.st # "none"
    /\ Top.pc = "base"
    /\ LET f == [Top EXCEPT !.log = Append(@,
                     LogEntry(ev.sym, ev.c, ev.p0, ret, ev.p1))]
       IN  IF ret.st = "ok"
           THEN Return(f, MakeFromItr(TopNode, ret.vals), itr, att, NoCursorOp)
           ELSE Return(f, ret, itr, att, NoCursorOp)
    /\ UNCHANGED <<seq, gram, use_all, result, todo, hist, auto>>

\* (mutant) the cursor of the call before is used again if there is one
TryStrKeepCursor ==
    /\ result.st = "init"
    /\ LET it == IF itr = <<>> THEN <<NewItr(0)>> ELSE itr
       IN  /\ itr' = it
           /\ stk' = <<Frame(Len(gram), 1, it)>>
    /\ result' = [result EXCEPT !.st = "run"]
    /\ ret' = NoRet
    /\ ev' = NoEv
    /\ att' = <<>>
    /\ last' = NoCursorOp
    /\ hist' = [hist EXCEPT !.used = Len(hist.adds)]
    /\ UNCHANGED <<seq, gram, use_all, todo, auto>>

\* SymbolABC.trystr: `self.tryitr(srcitr := SrcItr(chseq))`, a new cursor
\* and a new generator; the root symbol is the last node of the arena
TryStr ==
    /\ result.st = "init"
    /\ itr' = <<NewItr(0)>>
    /\ stk' = <<Frame(Len(gram), 1, <<NewItr(0)>>)>>
    /\ result' = [result EXCEPT !.st = "run"]
    /\ ret' = NoRet
    /\ ev' = NoEv
    /\ att' = <<>>
    /\ last' = NoCursorOp
    /\ hist' = [hist EXCEPT !.used = Len(hist.adds)]
    /\ UNCHANGED <<seq, gram, use_all, todo, auto>>

\* History: the call that ends with r is remembered if it is the first one;
\* of a later call on another input or grammar, whether it returned or
\* raised
Remember(r) ==
    IF ~hist.ref.set
    THEN [hist EXCEPT !.ref = [set |-> TRUE, gram |-> gram, seq |-> seq,
                               out |-> r]]
    ELSE IF gram = hist.ref.gram /\ seq = hist.ref.seq THEN hist
    ELSE [hist EXCEPT !.seen = @ \cup {r.st}]

\* SymbolABC.trystr: `tuple(...)[0]`, then the use_all test
TryStrEnd ==
    /\ result.st = "run" /\ stk = <<>>
    /\ LET r == IF ret.st = "exc"
                THEN [st |-> "exc", exc |-> ret.exc, vals |-> <<>>]
                ELSE IF ret.vals = <<>>
                THEN [st |-> "exc", exc |-> "IndexError", vals |-> <<>>]
                ELSE IF use_all /\ ~IsEof(itr, 1)
                THEN [st |-> "exc", exc |-> "NotAllCharsUsed", vals |-> <<>>]
                ELSE [st |-> "val", exc |-> "", vals |-> <<ret.vals[1]>>]
       IN  /\ result' = r
           /\ hist' = Remember(r)
    /\ UNCHANGED <<seq, gram, use_all, itr, att, last, stk, ret, ev, todo,
                   auto>>

\* (mutant) the symbol is put in front of the alternatives
AddSymbolFront(g, n, kid) == [g EXCEPT ![n].kids = <<kid>> \o @]

\* OR.add(symbol): self.symbols.append(to_symbol(symbol)), for a symbol
\* object, node kid of the arena
AddSymbol(g, n, kid) == [g EXCEPT ![n].kids = Append(@, kid)]

\* The client calls OR.add, between trystr calls or before the first.
OrAdd ==
    /\ result.st # "run"
    /\ todo # <<>>
    /\ gram' = AddSymbol(gram, Head(todo).n, Head(todo).kid)
    /\ todo' = Tail(todo)
    /\ hist' = [hist EXCEPT !.adds = Append(@, Head(todo))]
    /\ UNCHANGED <<seq, itr, att, last, use_all, stk, ret, result, ev, auto>>

\* The client is about to call trystr again, on the same symbol object with
\* another input or the same one.
NewCall ==
    /\ result.st \in {"val", "exc"}
    /\ seq' \in SeqsUpTo({"a", "b"}, MaxCallLen)
    /\ result' = [st |-> "init", exc |-> "", vals |-> <<>>]
    /\ UNCHANGED <<itr, att, last, gram, use_all, stk, ret, ev, todo, hist,
                   auto>>

----------------------------------------------------------------------------
(* The grammars trystr is run on, each with the characters its inputs are   *)
(* drawn from.  Grammars are built the way the tests build theirs.          *)

Gr(name, nodes, alpha) == [name |-> name, nodes |-> nodes, alpha |-> alpha]

AB == {"a", "b"}
ABSep == {"a", "b", ","}

\* single character symbols
TerminalGrammars ==
    { Gr("ExplChar", ExplChar(<<>>, "a"), AB),
      Gr("Char", Char(<<>>, "a"), AB),
      Gr("CharNot", CharNot(<<>>, "a"), AB),
      Gr("Chars", Chars(<<>>, {"a", "b"}), ABSep),
      Gr("CharsNot", CharsNot(<<>>, {"a", ","}), ABSep),
      Gr("CharNotWithEscape", CharNotWithEscape(<<>>, "b", "a"), AB),
      Gr("CharsNotWithEscape", CharsNotWithEscape(<<>>, {"b", ","}, "a"), ABSep) }

\* Seq(ExplChar('a'), ExplChar('b'))
GSeqAB == LET g1 == ExplChar(<<>>, "a")
              g2 == ExplChar(g1, "b")
          IN  SeqOf(g2, <<1, 2>>)

\* Seq(ExplChar('a'), RepStr(CharNot('b')), ExplChar('b')), test_brackets
GBrackets == LET g1 == ExplChar(<<>>, "a")
                 g2 == CharNot(g1, "b")
                 g3 == RepStr(g2, <<2>>, 1, -1)
                 g4 == ExplChar(g3, "b")
             IN  SeqOf(g4, <<1, Len(g3), Len(g4)>>)

\* Seq('ab', ExplChar('a')): the str becomes Str('ab')
GSeqStr == LET g1 == ToSymbol(<<>>, <<"a", "b">>)
               g2 == ExplChar(g1, "a")
           IN  SeqOf(g2, <<Len(g1), Len(g2)>>)

SeqGrammars ==
    { Gr("SeqAB", GSeqAB, AB),
      Gr("Brackets", GBrackets, AB),
      Gr("SeqStr", GSeqStr, AB),
      Gr("ExplStr", ExplStr(<<>>, <<"a", "b">>), AB),
      Gr("Str", Str(<<>>, <<"a", "b">>), AB) }

\* ExplStr(s) for every literal s, as test_charseq
ExplStrGrammars ==
    { Gr("ExplStr", ExplStr(<<>>, s), AB) : s \in SeqsUpTo(AB, MaxStr) }

\* Rep(ExplChar('a'), nmin=mn, nmax=mx), -1 being None
RepGrammars ==
    { Gr("Rep", Rep(ExplChar(<<>>, "a"), <<1>>, mn, mx), AB) :
        mn \in -1..MaxMin, mx \in -1..MaxMax }

\* Rep(ExplChar('a'), Char('b'), nmin=1, nmax=2)
GRepPair == LET g1 == ExplChar(<<>>, "a")
                g2 == Char(g1, "b")
            IN  Rep(g2, <<1, 2>>, 1, 2)

\* RepStr(CharNot('b')), IgnoreRep(ExplChar('a'), nmin=1)
MoreRepGrammars ==
    { Gr("RepPair", GRepPair, AB),
      Gr("RepStr", RepStr(CharNot(<<>>, "b"), <<1>>, 1, -1), AB),
      Gr("IgnoreRep", IgnoreRep(ExplChar(<<>>, "a"), <<1>>, 1, -1), AB) }

\* OR(ExplChar('a'), ExplStr('ab'))
GOrShortFirst == LET g1 == ExplChar(<<>>, "a")
                     g2 == ExplStr(g1, <<"a", "b">>)
                 IN  OR(g2, <<1, Len(g2)>>)

\* OR(ExplStr('ab'), ExplChar('a'))
GOrLongFirst == LET g1 == ExplChar(<<>>, "a")
                    g2 == ExplStr(g1, <<"a", "b">>)
                IN  OR(g2, <<Len(g2), 1>>)

\* OR(ExplStr('aa'), ExplStr('ab'), RepStr(ExplChar('a')))
GOrThree == LET g1 == ExplStr(<<>>, <<"a", "a">>)
                g2 == ExplStr(g1, <<"a", "b">>)
                g3 == ExplChar(g2, "a")
                g4 == RepStr(g3, <<Len(g3)>>, 1, -1)
            IN  OR(g4, <<Len(g1), Len(g2), Len(g4)>>)

\* Seq(OR(ExplStr('ab'), ExplChar('a')), ExplChar('b'))
GSeqOr == LET g1 == GOrLongFirst
              g2 == ExplChar(g1, "b")
          IN  SeqOf(g2, <<Len(g1), Len(g2)>>)

\* Rep(OR(ExplStr('ab'), ExplChar('b')))
GRepOr == LET g1 == ExplStr(<<>>, <<"a", "b">>)
              g2 == ExplChar(g1, "b")
              g3 == OR(g2, <<Len(g1), Len(g2)>>)
          IN  Rep(g3, <<Len(g3)>>, -1, -1)

\* OR('a', ExplChar('b')): the first alternative is Char('a')
GOrNoRes == LET g1 == ToSymbol(<<>>, <<"a">>)
                g2 == ExplChar(g1, "b")
            IN  OR(g2, <<1, 2>>)

OrGrammars ==
    { Gr("OrShortFirst", GOrShortFirst, AB),
      Gr("OrLongFirst", GOrLongFirst, AB),
      Gr("OrThree", GOrThree, AB),
      Gr("SeqOr", GSeqOr, AB),
      Gr("RepOr", GRepOr, AB),
      Gr("OrNone", OR(<<>>, <<>>), AB),
      Gr("OrNoRes", GOrNoRes, AB) }

\* Except(Chars('a', 'b'), ExplStr('ab'))
GExcept == LET g1 == Chars(<<>>, {"a", "b"})
               g2 == ExplStr(g1, <<"a", "b">>)
           IN  Except(g2, 1, Len(g2))

\* RepStr(Except(Chars('a', 'b'), ExplChar('b')))
GRepExcept == LET g1 == Chars(<<>>, {"a", "b"})
                  g2 == ExplChar(g1, "b")
                  g3 == Except(g2, 1, 2)
              IN  RepStr(g3, <<3>>, 1, -1)

ExceptGrammars ==
    { Gr("Except", GExcept, AB),
      Gr("RepExcept", GRepExcept, AB) }

\* RepSep(ExplChar('a'), sep=',')
GRepSepChar == RepSep(ExplChar(<<>>, "a"), 1, <<",">>, "")

\* RepSep(RepStr(CharsNot(',')), sep=','), as test_repsep_list
GRepSepStr == LET g1 == CharsNot(<<>>, {","})
                  g2 == RepStr(g1, <<1>>, 1, -1)
              IN  RepSep(g2, Len(g2), <<",">>, "")

\* Chain(Rep(ExplChar('a'), ExplChar('b')), ',', Opt(ExplChar('a'))): the
\* Rep's values are tuples, the separator contributes no value
GChainMixed == LET g1 == ExplChar(<<>>, "a")
                   g2 == ExplChar(g1, "b")
                   g3 == Rep(g2, <<1, 2>>, -1, -1)
                   g4 == ToSymbol(g3, <<",">>)
                   g5 == Opt(g4, <<1>>, Unspecified)
               IN  Chain(g5, <<Len(g3), Len(g4), Len(g5)>>, "")

RepSepGrammars ==
    { Gr("RepSepChar", GRepSepChar, {"a", ","}),
      Gr("RepSepStr", GRepSepStr, ABSep),
      Gr("ChainMixed", GChainMixed, ABSep) }

\* RepStr(CharsNotWithEscape(')', escape_char='\\')), the element symbol of
\* test_list_test_escaped_params
GRepEscape == LET g1 == CharsNotWithEscape(<<>>, {")"}, "\\")
              IN  RepStr(g1, <<1>>, 1, -1)

\* an element of test_list_test_escaped_params: on\)e
EscapedText == <<"o", "n", "\\", ")", "e">>

EscapeGrammars == { Gr("RepEscape", GRepEscape, {"n", ")", "\\"}) }

\* Seq('a', Opt(ExplStr('ab')), 'b'), as test_or_without_none
GSeqOpt == LET g1 == ToSymbol(<<>>, <<"a">>)
               g2 == ExplStr(g1, <<"a", "b">>)
               g3 == Opt(g2, <<Len(g2)>>, Unspecified)
               g4 == ToSymbol(g3, <<"b">>)
           IN  SeqOf(g4, <<1, Len(g3), Len(g4)>>)

\* Seq('a', Opt(ExplStr('ab'), none_val=None), 'b'), as test_or_with_none
GSeqOptNone == LET g1 == ToSymbol(<<>>, <<"a">>)
                   g2 == ExplStr(g1, <<"a", "b">>)
                   g3 == Opt(g2, <<Len(g2)>>, NoneVal)
                   g4 == ToSymbol(g3, <<"b">>)
               IN  SeqOf(g4, <<1, Len(g3), Len(g4)>>)

\* Opt(ExplChar('a')), Opt(ExplChar('a'), none_val=None),
\* Opt(ExplStr('ab'), none_val='')
OptGrammars ==
    { Gr("SeqOpt", GSeqOpt, AB),
      Gr("SeqOptNone", GSeqOptNone, AB),
      Gr("Opt", Opt(ExplChar(<<>>, "a"), <<1>>, Unspecified), AB),
      Gr("OptNone", Opt(ExplChar(<<>>, "a"), <<1>>, NoneVal), AB),
      Gr("OptEmpty", Opt(ExplStr(<<>>, <<"a", "b">>), <<3>>, StrVal(<<>>)), AB) }

\* Rep(Opt(ExplChar('a'))): a Rep with no max whose child matches without
\* consuming input
GRepOpt == LET g1 == Opt(ExplChar(<<>>, "a"), <<1>>, Unspecified)
           IN  Rep(g1, <<Len(g1)>>, -1, -1)

LoopGrammars == { Gr("RepOpt", GRepOpt, AB) }

\* The makers given to the symbols: list, which takes every value, and a
\* `lambda _: value`, which takes none.
Makers == {"list", "const"}

\* Seq(Rep(ExplChar('a'), maker=mk), ExplChar('b'))
GSeqRepMaker(mk) ==
    LET g1 == WithMaker(Rep(ExplChar(<<>>, "a"), <<1>>, -1, -1), mk)
        g2 == ExplChar(g1, "b")
    IN  SeqOf(g2, <<Len(g1), Len(g2)>>)

\* Rep(ExplChar('a'), nmin=2, maker=mk), Opt(ExplChar('a'), maker=mk),
\* RepSep(ExplChar('a'), sep=',', maker=mk) as test_py_list, and
\* Seq(Rep(ExplChar('a'), maker=mk), ExplChar('b'))
MakerGrammars ==
    UNION { { Gr("RepMaker", WithMaker(Rep(ExplChar(<<>>, "a"), <<1>>, 2, -1), mk), AB),
              Gr("OptMaker", WithMaker(Opt(ExplChar(<<>>, "a"), <<1>>, Unspecified), mk), AB),
              Gr("RepSepMaker", RepSep(ExplChar(<<>>, "a"), 1, <<",">>, mk), {"a", ","}),
              Gr("SeqRepMaker", GSeqRepMaker(mk), AB) } : mk \in Makers }

\* Seq('a', 'b'): no child contributes a value
GSeqNoRes == LET g1 == ToSymbol(<<>>, <<"a">>)
                 g2 == ToSymbol(g1, <<"b">>)
             IN  SeqOf(g2, <<1, 2>>)

\* Seq(Seq('a'), Ignore(ExplChar('b')), IgnoreOpt(ExplChar('a')),
\*     ExplChar('b')): one child contributes a value
GSeqNested == LET g1 == ToSymbol(<<>>, <<"a">>)
                  g2 == SeqOf(g1, <<1>>)
                  g3 == ExplChar(g2, "b")
                  g4 == Ignore(g3, <<Len(g3)>>)
                  g5 == ExplChar(g4, "a")
                  g6 == IgnoreOpt(g5, <<Len(g5)>>)
                  g7 == ExplChar(g6, "b")
              IN  SeqOf(g7, <<Len(g2), Len(g4), Len(g6), Len(g7)>>)

\* Seq(ExplChar('a'), ',', ExplChar('b')): two of three children contribute
GSeqMixed == LET g1 == ExplChar(<<>>, "a")
                 g2 == ToSymbol(g1, <<",">>)
                 g3 == ExplChar(g2, "b")
             IN  SeqOf(g3, <<1, 2, 3>>)

\* Seq(ExplChar('a'), Rep(RepStr(CharsNot(',', 'b')), ExplChar(',')),
\*     ExplChar('b')), as test_legacy_sep_list_expl
GLegacyListExpl == LET g1 == ExplChar(<<>>, "a")
                       g2 == CharsNot(g1, {",", "b"})
                       g3 == RepStr(g2, <<Len(g2)>>, 1, -1)
                       g4 == ExplChar(g3, ",")
                       g5 == Rep(g4, <<Len(g3), Len(g4)>>, -1, -1)
                       g6 == ExplChar(g5, "b")
                   IN  SeqOf(g6, <<1, Len(g5), Len(g6)>>)

\* Seq(Char('a'), Rep(RepStr(CharsNot(',', 'b')), Char(',')), Char('b')),
\* as test_legacy_sep_list
GLegacyList == LET g1 == Char(<<>>, "a")
                   g2 == CharsNot(g1, {",", "b"})
                   g3 == RepStr(g2, <<Len(g2)>>, 1, -1)
                   g4 == Char(g3, ",")
                   g5 == Rep(g4, <<Len(g3), Len(g4)>>, -1, -1)
                   g6 == Char(g5, "b")
               IN  SeqOf(g6, <<1, Len(g5), Len(g6)>>)

ArityGrammars ==
    { Gr("SeqNoRes", GSeqNoRes, AB),
      Gr("SeqNested", GSeqNested, AB),
      Gr("SeqMixed", GSeqMixed, ABSep),
      Gr("LegacyListExpl", GLegacyListExpl, ABSep),
      Gr("LegacyList", GLegacyList, ABSep) }

\* expr = OR(ExplChar('b')); inner = Seq(ExplChar('a'), expr, ExplChar('b'));
\* last = ExplChar('a'); root = Seq(expr).  inner and last are added to expr
\* by the client (NestAdds) after all of them have been constructed.
GNest == LET g1 == ExplChar(<<>>, "b")
             g2 == OR(g1, <<1>>)
             g3 == ExplChar(g2, "a")
             g4 == ExplChar(g3, "b")
             g5 == SeqOf(g4, <<3, 2, 4>>)
             g6 == ExplChar(g5, "a")
         IN  SeqOf(g6, <<2>>)

\* expr.add(inner); expr.add(last)
NestAdds == <<[n |-> 2, kid |-> 5], [n |-> 2, kid |-> 6]>>

AddGrammars == { Gr("Nest", GNest, AB) }

\* The OR.add calls the client makes on the grammar g.
AddsOf(g) == IF g = GNest THEN NestAdds ELSE <<>>

Grammars ==
    TerminalGrammars \cup SeqGrammars \cup RepGrammars \cup MoreRepGrammars
        \cup OrGrammars \cup ExceptGrammars \cup RepSepGrammars
        \cup ExplStrGrammars \cup EscapeGrammars \cup OptGrammars
        \cup ArityGrammars \cup AddGrammars \cup LoopGrammars
        \cup MakerGrammars

\* The symbol objects have been constructed, trystr has not been called.
NotCalled ==
    /\ use_all \in BOOLEAN
    /\ itr = <<>>
    /\ att = <<>>
    /\ last = NoCursorOp
    /\ stk = <<>>
    /\ ret = NoRet
    /\ result = [st |-> "init", exc |-> "", vals |-> <<>>]
    /\ ev = NoEv
    /\ todo = AddsOf(gram)
    /\ hist = [NoHist EXCEPT !.gram0 = gram]
    /\ auto = NoAuto

\* trystr has not been called yet: a grammar, an input and use_all are chosen.
Init ==
    /\ \/ \E g \in Grammars :
             /\ gram = g.nodes
             /\ seq \in SeqsUpTo(g.alpha, MaxLen)
       \/ gram = GRepEscape /\ seq = EscapedText
    /\ NotCalled

Next ==
    \/ OrAdd
    \/ TryStr
    \/ TryChar
    \/ MakerOnly
    \/ SeqCall
    \/ SeqDone
    \/ SeqResume
    \/ RepIter
    \/ RepExhausted
    \/ RepResume
    \/ OrAlt
    \/ OrFail
    \/ OrResume
    \/ ExceptLook
    \/ ExceptResume
    \/ ExceptBase
    \/ TryStrEnd

Spec == Init /\ [][Next]_vars

\* The interpreter always takes the next step of the running call.
SpecFair == Spec /\ WF_vars(Next)

\* The grammars of the client that calls trystr repeatedly:
\* test_or_charseq's kind of grammar, Rep with a maximum, Except, and the
\* recursive grammar built with OR.add.
CallGrammars ==
    { GOrThree, GSeqOr, GExcept, GNest,
      Rep(ExplChar(<<>>, "a"), <<1>>, 1, 2), GSeqRepMaker("const") }

InitCalls ==
    /\ gram \in CallGrammars
    /\ seq \in SeqsUpTo(AB, MaxCallLen)
    /\ NotCalled

NextCalls ==
    \/ Next
    \/ NewCall

SpecCalls == InitCalls /\ [][NextCalls]_vars

----------------------------------------------------------------------------
(* Claims about the cursor, checked under SpecItr *)

\* The position cursor k had before the last operation.
PosBefore(k) == last.before[k].pos
\* The child of the attempt the last operation closed, as it was at the close.
ClosedChild == last.before[last.before[last.k].child]

C2_CommitTakesChildPos ==
    /\ last.op = "enter" =>
          /\ itr[Len(itr)].pos = PosBefore(last.k)
          /\ itr[Len(itr)].child = 0
          /\ itr[last.k] = [last.before[last.k] EXCEPT !.child = Len(itr)]
    /\ (last.op = "exit" /\ ~last.exc) =>
          /\ itr[last.k].pos = ClosedChild.pos
          /\ itr[last.k].child = 0

\* C2 witness: a commit whose child had advanced, partly by committing a
\* nested attempt of its own.
C2_Witness ==
    /\ last.op = "exit" /\ ~last.exc /\ last.inner
    /\ ClosedChild.pos > last.pos0 + 1
    /\ itr[last.k].pos = ClosedChild.pos

\* Every cursor that exists before and after the last operation has not moved
\* backwards.
NoCursorWentBack ==
    \A k \in DOMAIN itr \cap DOMAIN last.before : itr[k].pos >= PosBefore(k)

\* C3 as stated: over any sequence of next(), __enter__ and __exit__ on a
\* cursor and its descendants, no operation decreases a cursor's pos.
C3_Original_PosOnlyAdvances == NoCursorWentBack

\* C3 amended: no operation decreases a cursor's pos, except a commit on a
\* parent that was advanced by its own next() while its attempt was open; a
\* commit never puts the parent before the position at which the attempt was
\* opened.
C3_PosOnlyAdvancesScoped ==
    /\ ~(last.op = "exit" /\ ~last.exc /\ last.own) => NoCursorWentBack
    /\ (last.op = "exit" /\ ~last.exc) => itr[last.k].pos >= last.pos0

\* C3 witness: a commit that advances a parent which was not advanced by its
\* own next() during the attempt.
C3_Witness ==
    /\ last.op = "exit" /\ ~last.exc /\ ~last.own
    /\ itr[last.k].pos > PosBefore(last.k)

\* C4: next() returns seq[pos] and adds one to pos when pos < len(seq), raises
\* StopSrcItr and keeps pos when pos = len(seq); 0 <= pos <= len(seq) for every
\* cursor; is_eof() is pos = len(seq) and changes nothing.
C4_NextAndBounds ==
    /\ \A k \in DOMAIN itr : 0 <= itr[k].pos /\ itr[k].pos <= Len(seq)
    /\ last.op = "next" =>
          /\ IF PosBefore(last.k) < Len(seq)
             THEN /\ last.ok
                  /\ last.ch = seq[PosBefore(last.k) + 1]
                  /\ itr[last.k].pos = PosBefore(last.k) + 1
             ELSE /\ ~last.ok
                  /\ itr[last.k].pos = PosBefore(last.k)
          /\ \A j \in DOMAIN itr : j # last.k => itr[j] = last.before[j]
          /\ itr[last.k].child = last.before[last.k].child
    /\ last.op = "eof" =>
          /\ last.ok = (PosBefore(last.k) = Len(seq))
          /\ itr = last.before

\* C4 witness: next() has raised StopSrcItr at the end of a non-empty input,
\* on a child cursor.
C4_Witness ==
    /\ last.op = "next" /\ ~last.ok
    /\ last.k >= 2
    /\ Len(seq) >= 2
    /\ itr[last.k].pos = Len(seq)

----------------------------------------------------------------------------
(* Claims about the engine, checked under Spec *)

\* The tryitr call that ended last failed with SymbolTryFailed or StopSrcItr.
EvFailed == ev.st = "exc" /\ ev.exc \in {"SymbolTryFailed", "StopSrcItr"}
\* The node of the tryitr call that ended last.
EvNode == gram[ev.sym]
\* The number of calls in a log that ended without an exception.
NOk(log) == Cardinality({j \in DOMAIN log : log[j].st = "ok"})
Finished == result.st \in {"val", "exc"}

\* C5 as stated: when a symbol's tryitr fails with SymbolTryFailed or
\* StopSrcItr, the cursor it was given is at the position it had at entry.
C5_Original_AtomicFailure == EvFailed => ev.p1 = ev.p0

\* C5 amended: a failure is undone at the attempt around it, not on the
\* cursor given to the failing symbol: while an attempt is open the cursor it
\* was opened on stays where it was, and when the attempt is discarded that
\* cursor is at the position it had when the attempt was opened.
C5_FailureUndoneByAttempt ==
    /\ \A j \in DOMAIN att : itr[att[j].par].pos = att[j].pos0
    /\ (last.op = "exit" /\ last.exc) =>
          /\ itr[last.k].pos = last.pos0
          /\ itr[last.k].child = 0

\* C5 witness: a symbol failed after consuming input, inside an attempt that
\* was then discarded with its parent back at the opening position.
C5_Witness ==
    /\ last.op = "exit" /\ last.exc
    /\ ClosedChild.pos > last.pos0 + 1
    /\ itr[last.k].pos = last.pos0
    /\ last.pos0 > 0

\* C6: every attempt a combinator opens is closed exactly once before the
\* combinator's tryitr ends, by a value or by an exception; __exit__ is only
\* called on a cursor whose attempt is open; when trystr has ended only the
\* root cursor is left and it has no child.
C6_ScopedAttempts ==
    /\ ev.st # "none" => /\ ev.child = 0
                         /\ ev.live = ev.c
                         /\ ev.op = ev.cl
    /\ last.op = "exit" => last.before[last.k].child # 0
    /\ \A j \in DOMAIN stk : stk[j].op - stk[j].cl \in {0, 1}
    /\ itr # <<>> => /\ Len(att) = Len(itr) - 1
                     /\ \A k \in DOMAIN itr :
                           itr[k].child = IF k < Len(itr) THEN k + 1 ELSE 0
    /\ Finished => /\ Len(itr) = 1
                   /\ itr[1].child = 0

\* C6 witness: trystr raised after a Rep had committed an attempt and
\* discarded the next one.
C6_Witness ==
    /\ result.st = "exc"
    /\ ev.kind = "rep" /\ ev.op >= 2 /\ ev.cl = ev.op
    /\ NOk(ev.log) >= 1 /\ NOk(ev.log) < Len(ev.log)
    /\ itr[1].child = 0

\* C7: when OR gives a value, the alternatives were tried in the order of
\* OR.symbols, each from OR's entry position, all before the last one tried
\* failed, and the last one tried succeeded and gave OR its value and end
\* position: no alternative after the first success was tried.
C7_OrderedChoice ==
    (ev.kind = "or" /\ ev.st = "ok") =>
        LET m == Len(ev.log)
        IN  /\ m >= 1 /\ m <= Len(EvNode.kids)
            /\ \A j \in 1..m : /\ ev.log[j].sym = EvNode.kids[j]
                               /\ ev.log[j].from = ev.p0
            /\ \A j \in 1..(m - 1) : ev.log[j].st = "exc"
            /\ ev.log[m].st = "ok"
            /\ ev.vals = ev.log[m].vals
            /\ ev.p1 = ev.log[m].to

\* C7 witness: OR(ExplChar('a'), ExplStr('ab')) on input that begins with
\* "ab" gives 'a' and stops after one character, though the second
\* alternative matches more.
C7_Witness ==
    /\ gram = GOrShortFirst
    /\ Len(seq) >= 2 /\ seq[1] = "a" /\ seq[2] = "b"
    /\ ev.kind = "or" /\ ev.st = "ok"
    /\ ev.vals = <<StrVal(<<"a">>)>>
    /\ ev.p1 = 1
    /\ Len(ev.log) = 1

\* C8: with max unspecified or max >= min, Rep fails with SymbolTryFailed if
\* and only if fewer than min iterations had succeeded when the loop stopped.
C8_RepMinimum ==
    (ev.kind = "rep" /\ ev.st # "none"
        /\ (EvNode.nmax = -1 \/ EvNode.nmax >= EvNode.nmin)) =>
        ((ev.st = "exc" /\ ev.exc = "SymbolTryFailed")
            <=> (EvNode.nmin # -1 /\ NOk(ev.log) < EvNode.nmin))

\* C9: Rep with a max never has more than max successful iterations, and
\* when max iterations have succeeded (min <= max) it stops there: it has
\* consumed exactly their input and yields their max values.
C9_RepMaximum ==
    (ev.kind = "rep" /\ ev.st # "none" /\ EvNode.res = "many"
        /\ EvNode.nmax # -1 /\ EvNode.nmin <= EvNode.nmax) =>
        /\ NOk(ev.log) <= EvNode.nmax
        /\ NOk(ev.log) = EvNode.nmax =>
              /\ ev.st = "ok"
              /\ Len(ev.vals[1].e) = EvNode.nmax
              /\ Len(ev.log) = EvNode.nmax
              /\ EvNode.nmax > 0 => ev.p1 = ev.log[EvNode.nmax].to

RECURSIVE SplitAt(_, _)
\* the pieces of s between the occurrences of sep
SplitAt(s, sep) ==
    IF s = <<>> THEN << <<>> >>
    ELSE LET r == SplitAt(Tail(s), sep)
         IN  IF Head(s) = sep THEN << <<>> >> \o r
             ELSE << <<Head(s)>> \o Head(r) >> \o Tail(r)

\* The elements of an input e1 sep e2 sep ... en, with or without a
\* separator after en.
Elements(s) == SelectSeq(SplitAt(s, ","), LAMBDA piece : piece # <<>>)

\* s is e1 sep ... en or e1 sep ... en sep, n >= 0, every ei being an input
\* of the element symbol of the RepSep grammar g.
IsSepList(g, s) ==
    LET pieces == SplitAt(s, ",")
    IN  /\ \A j \in 1..(Len(pieces) - 1) : pieces[j] # <<>>
        /\ g = GRepSepChar => \A j \in DOMAIN pieces : pieces[j] \in {<<>>, <<"a">>}

\* C10: on e1 sep ... en, with or without a separator after en, RepSep gives
\* exactly the tuple (e1, ..., en) and consumes the whole input.
C10_RepSepBothForms ==
    (Finished /\ gram \in {GRepSepChar, GRepSepStr} /\ IsSepList(gram, seq)) =>
        /\ result.st = "val"
        /\ result.vals =
             <<TupVal([j \in DOMAIN Elements(seq) |-> StrVal(Elements(seq)[j])])>>
        /\ itr[1].pos = Len(seq)

\* C10 witness: two elements with a separator after the last one.
C10_Witness ==
    /\ Finished /\ gram = GRepSepStr
    /\ seq = <<"a", ",", "b", ",">>
    /\ result.st = "val"
    /\ Len(result.vals[1].e) = 2

\* C10 witness for the other form: no separator after the last element.
C10_WitnessNoTrailing ==
    /\ Finished /\ gram = GRepSepStr
    /\ seq = <<"a", ",", "b", ",", "a">>
    /\ result.st = "val"
    /\ Len(result.vals[1].e) = 3

\* C11 as stated: when the root symbol matched, trystr with use_all = False
\* returns the root's value whether or not input remains; with use_all = True
\* it returns that value if the cursor is at the end of the input and raises
\* NotAllCharsUsed otherwise; NotAllCharsUsed is raised only when use_all is
\* True and the root symbol matched.
C11_UseAll ==
    Finished =>
        /\ ret.st = "ok" =>
              IF use_all /\ itr[1].pos < Len(seq)
              THEN result.st = "exc" /\ result.exc = "NotAllCharsUsed"
              ELSE result.st = "val" /\ result.vals = ret.vals
        /\ (result.st = "exc" /\ result.exc = "NotAllCharsUsed") =>
              use_all /\ ret.st = "ok"

\* t begins with s
BeginsWith(t, s) == Len(t) >= Len(s) /\ SubSeq(t, 1, Len(s)) = s

\* C12 as stated: ExplStr(s).trystr(s) returns s, and on every input that
\* does not begin with s ExplStr(s).trystr fails with SymbolTryFailed.
C12_Original_ExplStr ==
    \A s \in SeqsUpTo(AB, MaxStr) :
        (Finished /\ gram = ExplStr(<<>>, s)) =>
            /\ seq = s => result.st = "val" /\ result.vals = <<StrVal(s)>>
            /\ ~BeginsWith(seq, s) =>
                  result.st = "exc" /\ result.exc = "SymbolTryFailed"

\* C12 amended: ExplStr(s).trystr(s) returns s; on an input that does not
\* begin with s it fails, with StopSrcItr when the input is a proper prefix
\* of s (the input ends before a difference is met) and with
\* SymbolTryFailed otherwise.
C12_ExplStrLiteral ==
    \A s \in SeqsUpTo(AB, MaxStr) :
        (Finished /\ gram = ExplStr(<<>>, s)) =>
            /\ seq = s => result.st = "val" /\ result.vals = <<StrVal(s)>>
            /\ ~BeginsWith(seq, s) =>
                  /\ result.st = "exc"
                  /\ result.exc = IF BeginsWith(s, seq) THEN "StopSrcItr"
                                  ELSE "SymbolTryFailed"

\* C12 witness: ExplStr('ab') returned 'ab' on the input ab.
C12_Witness ==
    /\ Finished /\ gram = ExplStr(<<>>, <<"a", "b">>)
    /\ seq = <<"a", "b">>
    /\ result.st = "val" /\ result.vals = <<StrVal(<<"a", "b">>)>>

\* C12, the case the statement gets wrong: ExplStr('ab') on the input a
\* raises StopSrcItr.
C12_WitnessEndOfInput ==
    /\ Finished /\ gram = ExplStr(<<>>, <<"a", "b">>)
    /\ seq = <<"a">>
    /\ result.st = "exc" /\ result.exc = "StopSrcItr"

RECURSIVE Unescaped(_, _, _)
\* What a run of characters none of which is in excl, with the escape
\* character esc, stands for: the longest such run at the start of s, every
\* esc dropped and the character after it kept whatever it is.
Unescaped(s, excl, esc) ==
    IF s = <<>> THEN <<>>
    ELSE IF Head(s) = esc
    THEN IF Len(s) >= 2
         THEN <<s[2]>> \o Unescaped(Tail(Tail(s)), excl, esc)
         ELSE <<>>
    ELSE IF Head(s) \in excl THEN <<>>
    ELSE <<Head(s)>> \o Unescaped(Tail(s), excl, esc)

\* C13: a character matcher with an escape character e, entered where at
\* least one element is left: if the next element is e and another follows,
\* two elements are consumed and the second is the value, excluded or not; if
\* the next element is not e, one element is consumed and it is the value if
\* it is not excluded, SymbolTryFailed is raised otherwise.  And RepStr over
\* CharsNotWithEscape(')', escape_char='\') gives the unescaped text.
C13_Escape ==
    /\ (ev.kind = "char" /\ ev.st # "none" /\ EvNode.esc # ""
            /\ ev.p0 < Len(seq)) =>
          IF seq[ev.p0 + 1] = EvNode.esc
          THEN ev.p0 + 2 <= Len(seq) =>
                  /\ ev.st = "ok"
                  /\ ev.vals = <<StrVal(<<seq[ev.p0 + 2]>>)>>
                  /\ ev.p1 = ev.p0 + 2
          ELSE /\ ev.p1 = ev.p0 + 1
               /\ IF seq[ev.p0 + 1] \notin EvNode.chs
                  THEN ev.st = "ok" /\ ev.vals = <<StrVal(<<seq[ev.p0 + 1]>>)>>
                  ELSE ev.st = "exc" /\ ev.exc = "SymbolTryFailed"
    /\ (Finished /\ gram = GRepEscape /\ ~use_all
            /\ Unescaped(seq, {")"}, "\\") # <<>>) =>
          /\ result.st = "val"
          /\ result.vals = <<StrVal(Unescaped(seq, {")"}, "\\"))>>

\* C13 witness: the input on\)e gave on)e.
C13_Witness ==
    /\ Finished /\ gram = GRepEscape /\ seq = EscapedText
    /\ result.st = "val"
    /\ result.vals = <<StrVal(<<"o", "n", ")", "e">>)>>
    /\ ev.kind = "rep" /\ \E j \in DOMAIN ev.log : ev.log[j].to = ev.log[j].from + 2

\* C14: Opt never fails; when its child does not match it consumes nothing
\* and gives () without none_val and none_val with it; when its child
\* matches with the value v it ends where the child ended and gives (v,)
\* without none_val and v itself with it.  (An Opt without a maker.)
C14_OptShape ==
    (ev.kind = "rep" /\ ev.st # "none" /\ EvNode.res = "opt"
        /\ EvNode.maker = "") =>
        LET first == ev.log[1]
            plain == EvNode.noneval = Unspecified
        IN  /\ ev.st = "ok"
            /\ Len(ev.log) = 1
            /\ first.from = ev.p0
            /\ first.st = "exc" =>
                  /\ ev.p1 = ev.p0
                  /\ ev.vals = <<IF plain THEN TupVal(<<>>) ELSE EvNode.noneval>>
            /\ (first.st = "ok" /\ Len(first.vals) = 1) =>
                  /\ ev.p1 = first.to
                  /\ ev.vals = <<IF plain THEN TupVal(<<first.vals[1]>>)
                                 ELSE first.vals[1]>>

\* C14 witness: Seq('a', Opt(ExplStr('ab'), none_val=None), 'b') on ab: the
\* child of Opt consumed the b before failing, Opt gave None and the b was
\* still there for the last symbol.
C14_Witness ==
    /\ Finished /\ gram = GSeqOptNone /\ seq = <<"a", "b">>
    /\ result.st = "val" /\ result.vals = <<NoneVal>>

\* C14 witness for a match: the same grammar without none_val on aabb gives
\* ('ab',).
C14_WitnessMatch ==
    /\ Finished /\ gram = GSeqOpt /\ seq = <<"a", "a", "b", "b">>
    /\ result.st = "val" /\ result.vals = <<TupVal(<<StrVal(<<"a", "b">>)>>)>>

RECURSIVE NoResult(_, _)
\* Node n of the arena g is a NoResult symbol: Char, Str, Ignore, IgnoreRep,
\* IgnoreOpt, or a Seq all of whose children are NoResult.
NoResult(g, n) ==
    \/ g[n].res = "no"
    \/ /\ g[n].kind = "seq" /\ g[n].res = "any"
       /\ \A j \in DOMAIN g[n].kids : NoResult(g, g[n].kids[j])

\* The values the children of the Seq call that ended last contributed, in
\* child order, those of NoResult children left out.
Contributed ==
    Flatten([j \in DOMAIN ev.log |->
                IF NoResult(gram, ev.log[j].sym) THEN <<>> ELSE ev.log[j].vals])

C15_WitnessOne ==
    /\ Finished /\ gram = GSeqNested /\ seq = <<"a", "b", "a", "b">>
    /\ result.st = "val" /\ result.vals = <<StrVal(<<"b">>)>>

\* C15 witness for k = 0: the Seq matched and gave no value.
C15_WitnessNone ==
    /\ gram = GSeqNoRes /\ ev.kind = "seq" /\ ev.st = "ok" /\ ev.depth = 1
    /\ ev.vals = <<>> /\ ev.p1 = 2

\* C16 as stated: trystr returns a value or fails with SymbolTryFailed,
\* StopSrcItr or NotAllCharsUsed; whenever the root symbol matched, a value
\* is returned or NotAllCharsUsed is raised.
C16_DocumentedOutcomes ==
    Finished =>
        /\ \/ result.st = "val"
           \/ result.exc \in {"SymbolTryFailed", "StopSrcItr", "NotAllCharsUsed"}
        /\ ret.st = "ok" =>
              \/ result.st = "val"
              \/ result.exc = "NotAllCharsUsed"

\* C16, the part about OR: when an alternative of OR matched, OR does not
\* fail.
C16_OrSelectedAnyArity ==
    (ev.kind = "or" /\ ev.st = "exc" /\ ev.log # <<>>) =>
        ev.log[Len(ev.log)].st = "exc"

\* C18 as stated: if the excluded symbol matches at the entry position,
\* Except fails with SymbolTryFailed; if it fails there, with
\* SymbolTryFailed or with StopSrcItr, base is tried from the entry position
\* and Except's outcome, value and end position are those of base.
C18_ExceptOutcome ==
    (ev.kind = "except" /\ ev.st # "none") =>
        LET look == ev.log[1]
        IN  /\ look.sym = EvNode.kids[2]
            /\ look.from = ev.p0
            /\ look.st = "ok" => ev.st = "exc" /\ ev.exc = "SymbolTryFailed"
            /\ (look.st = "exc"
                    /\ look.exc \in {"SymbolTryFailed", "StopSrcItr"}) =>
                  /\ Len(ev.log) = 2
                  /\ ev.log[2].sym = EvNode.kids[1]
                  /\ ev.log[2].from = ev.p0
                  /\ ev.st = ev.log[2].st
                  /\ ev.exc = ev.log[2].exc
                  /\ ev.vals = ev.log[2].vals
                  /\ ev.p1 = ev.log[2].to

\* C20: every alternative of OR starts at the position OR was entered at,
\* whatever the alternatives before it consumed; while OR is between
\* alternatives its cursor is at that position, and when all alternatives
\* have failed OR fails with its cursor at that position.
C20_OrBacktracks ==
    /\ (ev.kind = "or" /\ ev.st # "none") =>
          /\ \A j \in DOMAIN ev.log : ev.log[j].from = ev.p0
          /\ (\A j \in DOMAIN ev.log : ev.log[j].st = "exc"
                                        /\ ev.log[j].exc \in {"SymbolTryFailed", "StopSrcItr"}) =>
                /\ ev.st = "exc" /\ ev.exc = "SymbolTryFailed"
                /\ Len(ev.log) = Len(EvNode.kids)
                /\ ev.p1 = ev.p0
    /\ \A d \in DOMAIN stk :
          gram[stk[d].sym].kind = "or" => itr[stk[d].c].pos = stk[d].p0

\* C20 witness: at a position after the start of the input all alternatives
\* of OR failed, one of them after consuming two characters, and OR's
\* cursor is where OR was entered.
C20_Witness ==
    /\ ev.kind = "or" /\ ev.st = "exc" /\ ev.exc = "SymbolTryFailed"
    /\ ev.p0 > 0
    /\ Len(ev.log) >= 2
    /\ \E j \in DOMAIN ev.log : ev.log[j].to >= ev.log[j].from + 2
    /\ ev.p1 = ev.p0

----------------------------------------------------------------------------
(* Claims about repeated calls and OR.add *)

\* C17: trystr called on the same symbol object with the same structure and
\* the same input as in the first call gives the outcome of the first call,
\* whatever calls were made in between.
C17_NoResidue ==
    (Finished /\ hist.ref.set /\ gram = hist.ref.gram /\ seq = hist.ref.seq) =>
        result = hist.ref.out

\* C17 witness: the first call returned a value; after a call that returned
\* and a call that raised, both on other inputs, the call is repeated and
\* returns that value.
C17_Witness ==
    /\ Finished /\ hist.ref.set
    /\ gram = hist.ref.gram /\ seq = hist.ref.seq
    /\ hist.seen = {"val", "exc"}
    /\ result.st = "val" /\ result = hist.ref.out
    /\ seq # <<>>

\* The alternatives of OR node n in order of registration: those given to
\* the constructor, then those added by OR.add in the order of the calls.
Registered(n) ==
    LET mine == SelectSeq(hist.adds, LAMBDA a : a.n = n)
    IN  hist.gram0[n].kids \o [j \in DOMAIN mine |-> mine[j].kid]

RECURSIVE Nest(_)
\* b enclosed in d pairs of a ... b
Nest(d) == IF d = 0 THEN <<"b">> ELSE <<"a">> \o Nest(d - 1) \o <<"b">>

RECURSIVE NestVal(_)
\* the value of Nest(d): 'b', ('a', 'b', 'b'), ('a', ('a', 'b', 'b'), 'b'), ...
NestVal(d) ==
    IF d = 0 THEN StrVal(<<"b">>)
    ELSE TupVal(<<StrVal(<<"a">>), NestVal(d - 1), StrVal(<<"b">>)>>)

\* C19: the alternatives of every OR are those it was constructed with
\* followed by the added ones in the order of the add calls, and nothing
\* else of the grammar changes; every OR call tries its alternatives in that
\* order; once the alternative that contains the OR itself has been added,
\* the nested inputs parse to the nested values.
C19_AddOrder ==
    /\ \A n \in DOMAIN gram :
          /\ gram[n].kind = "or" => gram[n].kids = Registered(n)
          /\ gram[n] = [hist.gram0[n] EXCEPT !.kids = gram[n].kids]
          /\ gram[n].kind # "or" => gram[n] = hist.gram0[n]
    /\ (ev.kind = "or" /\ ev.st # "none") =>
          /\ Len(ev.log) <= Len(Registered(ev.sym))
          /\ \A j \in DOMAIN ev.log : ev.log[j].sym = Registered(ev.sym)[j]
    /\ (Finished /\ hist.gram0 = GNest /\ hist.used >= 1) =>
          \A d \in 0..MaxLen :
              seq = Nest(d) => result.st = "val" /\ result.vals = <<NestVal(d)>>

\* C19 witness: with both alternatives added, a b nested in two pairs
\* parsed to the nested value.
C19_Witness ==
    /\ Finished /\ hist.gram0 = GNest /\ hist.used = 2
    /\ seq = Nest(2)
    /\ result.st = "val" /\ result.vals = <<NestVal(2)>>

\* C19 witness for the order: the alternative added last, ExplChar('a'), is
\* selected on the input a after the two registered before it failed.
C19_WitnessLast ==
    /\ Finished /\ hist.gram0 = GNest /\ hist.used = 2
    /\ seq = <<"a">>
    /\ result.st = "val" /\ result.vals = <<StrVal(<<"a">>)>>
    /\ ev.depth = 1

----------------------------------------------------------------------------
(* Claims about failure, order and atomicity of the combinators *)

\* The log entry is a call that failed with SymbolTryFailed or StopSrcItr.
Failed(e) == e.st = "exc" /\ e.exc \in {"SymbolTryFailed", "StopSrcItr"}

\* C21: OR fails with SymbolTryFailed if and only if every one of its
\* alternatives was tried and failed; an alternative that fails with
\* StopSrcItr is followed by the next alternative, and OR itself never fails
\* with StopSrcItr.
C21_OrFailure ==
    (ev.kind = "or" /\ ev.st # "none") =>
        LET n == Len(EvNode.kids)
        IN  /\ (ev.st = "exc" /\ ev.exc = "SymbolTryFailed")
                  <=> (Len(ev.log) = n /\ \A j \in 1..n : Failed(ev.log[j]))
            /\ \A j \in DOMAIN ev.log :
                  (ev.log[j].st = "exc" /\ ev.log[j].exc = "StopSrcItr"
                      /\ j < n) => Len(ev.log) > j
            /\ ~(ev.st = "exc" /\ ev.exc = "StopSrcItr")

\* C21 witness: an alternative ran out of input, the alternatives after it
\* were tried, none matched and OR raised SymbolTryFailed.
C21_Witness ==
    /\ ev.kind = "or" /\ ev.st = "exc" /\ ev.exc = "SymbolTryFailed"
    /\ Len(ev.log) = Len(EvNode.kids) /\ Len(ev.log) >= 2
    /\ ev.log[1].exc = "StopSrcItr"
    /\ ev.log[Len(ev.log)].exc = "SymbolTryFailed"

\* What a node with the maker mk makes of the sequence vs of its values:
\* the tuple without a maker, list(vs), or the value of `lambda _: value`.
Applied(mk, vs) ==
    CASE mk = "" -> TupVal(vs)
      [] mk = "list" -> ListVal(vs)
      [] mk = "const" -> ConstVal

\* The values of the successful calls of a log, in order.
OkVals(log) ==
    Flatten([j \in DOMAIN log |-> IF log[j].st = "ok" THEN log[j].vals ELSE <<>>])

\* C22: when a Rep (or RepStr) whose child contributes a value succeeds, its
\* successful iterations come first, each starting where the one before
\* ended; the cursor is at the end of the last successful iteration (the
\* entry position if there is none), whatever the failing iteration
\* consumed; and the result is made of exactly one value per successful
\* iteration, in order (the maker applied to them if there is one).
C22_RepIterationAtomic ==
    (ev.kind = "rep" /\ ev.st = "ok" /\ EvNode.res \in {"many", "str"}
        /\ ~NoResult(gram, EvNode.kids[1])) =>
        LET m == NOk(ev.log)
        IN  /\ \A j \in 1..m : /\ ev.log[j].st = "ok"
                               /\ Len(ev.log[j].vals) = 1
                               /\ ev.log[j].from = IF j = 1 THEN ev.p0
                                                   ELSE ev.log[j - 1].to
            /\ Len(ev.log) \in {m, m + 1}
            /\ ev.p1 = IF m = 0 THEN ev.p0 ELSE ev.log[m].to
            /\ Len(OkVals(ev.log)) = m
            /\ EvNode.res = "many" =>
                  ev.vals = <<Applied(EvNode.maker, OkVals(ev.log))>>
            /\ EvNode.res = "str" =>
                  ev.vals = <<StrVal(Flatten([j \in 1..m |->
                                                ev.log[j].vals[1].s]))>>

\* C22 witness: Rep succeeded after an iteration that consumed input before
\* it failed; Rep's cursor is where that iteration started.
C22_Witness ==
    /\ ev.kind = "rep" /\ ev.st = "ok" /\ EvNode.res = "many"
    /\ NOk(ev.log) >= 1 /\ Len(ev.log) = NOk(ev.log) + 1
    /\ LET e == ev.log[Len(ev.log)]
       IN  /\ Failed(e)
           /\ e.to >= e.from + 2
           /\ ev.p1 = e.from

\* C23 as stated: the attempt in which the excluded symbol is tried is never
\* committed: when the excluded symbol matches, Except fails with its cursor
\* at the entry position, and when it does not, base starts at the entry
\* position.
C23_ExceptLookaheadThrownAway ==
    (ev.kind = "except" /\ ev.st # "none") =>
        /\ ev.log[1].st = "ok" => ev.p1 = ev.p0
        /\ Len(ev.log) = 2 => ev.log[2].from = ev.p0

\* C25: the children of a Seq are tried in order on the cursor the Seq was
\* given, each starting where the one before ended; a child that fails is
\* the last one tried and the Seq fails as that child did; when all have
\* succeeded the cursor is at the end of the last child.  (Of the nodes that
\* run SeqABC.itr_for_try: Seq, MultiSeq, Ignore, Str, ExplStr, and Chain
\* unless its maker leaves the values untouched.)
C25_SeqOrder ==
    (ev.kind = "seq" /\ ev.st # "none" /\ ~IgnoresItr(EvNode)) =>
        LET n == Len(EvNode.kids)
            m == Len(ev.log)
        IN  /\ m <= n
            /\ \A j \in 1..m :
                  /\ ev.log[j].sym = EvNode.kids[j]
                  /\ ev.log[j].c = ev.c
                  /\ ev.log[j].from = IF j = 1 THEN ev.p0 ELSE ev.log[j - 1].to
                  /\ j < m => ev.log[j].st = "ok"
            /\ ev.p1 = IF m = 0 THEN ev.p0 ELSE ev.log[m].to
            /\ (m > 0 /\ ev.log[m].st = "exc") =>
                  ev.st = "exc" /\ ev.exc = ev.log[m].exc
            /\ ev.st = "ok" => m = n
            /\ m < n => ev.log[m].st = "exc"

\* C25 witness: the second of three children failed after the first had
\* consumed input; the third was not tried.
C25_Witness ==
    /\ ev.kind = "seq" /\ ev.st = "exc"
    /\ Len(EvNode.kids) = 3 /\ Len(ev.log) = 2
    /\ ev.log[1].st = "ok" /\ ev.log[1].to > ev.log[1].from
    /\ ev.log[2].from = ev.log[1].to

\* An attempt of a Rep with no max is in progress.
RepLooping ==
    /\ Running
    /\ \E k \in DOMAIN stk : /\ gram[stk[k].sym].kind = "rep"
                             /\ gram[stk[k].sym].nmax = -1

\* C24 as stated: every attempt of a Rep with no max eventually stops
\* looping and returns or fails.
C24_RepTerminates == RepLooping ~> ~RepLooping

\* The sequence value each call of a log contributed: the items of its
\* tuple, nothing for a call that gave no value.
SeqParts(log) ==
    [j \in DOMAIN log |-> IF log[j].vals = <<>> THEN <<>>
                          ELSE log[j].vals[1].e]

\* C26: the result of a Chain whose children give tuples is one sequence,
\* the items of the first child's tuple followed by those of the next and so
\* on, the items themselves unchanged (flattened one level only); a child
\* without a result adds nothing; for Chain(Rep(v, sep), Opt(v)) the Opt adds
\* at most one item after the Rep's.  With a maker the result is the maker
\* applied to that sequence.
C26_ChainFlattening ==
    (ev.kind = "seq" /\ EvNode.res = "chain" /\ ev.st = "ok") =>
        LET flat == Flatten(SeqParts(ev.log))
        IN  /\ \A j \in DOMAIN ev.log :
                  /\ Len(ev.log[j].vals) <= 1
                  /\ ev.log[j].vals # <<>> => ev.log[j].vals[1].k = "tuple"
                  /\ NoResult(gram, ev.log[j].sym) => ev.log[j].vals = <<>>
                  /\ gram[ev.log[j].sym].res = "opt" =>
                        Len(ev.log[j].vals[1].e) <= 1
            /\ ev.vals = <<Applied(EvNode.maker, flat)>>

\* C26 witness: a Chain of a Rep that gave a tuple of tuples, a separator
\* without a result and an Opt that matched: the Rep's tuple, then the Opt's
\* value.
C26_Witness ==
    /\ ev.kind = "seq" /\ EvNode.res = "chain" /\ ev.st = "ok"
    /\ Len(ev.log) = 3
    /\ ev.log[2].vals = <<>>
    /\ ev.vals = <<TupVal(<<TupVal(<<StrVal(<<"a">>), StrVal(<<"b">>)>>),
                            StrVal(<<"a">>)>>)>>

\* The loop of a Rep or Opt ran as RepABC.itr_for_try runs it: iterations
\* until one failed or max was reached, the cursor at the end of the last
\* successful one, failure exactly when the min check fails.
RepMatched ==
    LET m == NOk(ev.log)
        n == Len(ev.log)
    IN  /\ \/ n = m + 1 /\ Failed(ev.log[n])
           \/ EvNode.nmax # -1 /\ n = EvNode.nmax /\ m = n
        /\ ev.p1 = IF m = 0 THEN ev.p0 ELSE ev.log[m].to
        /\ ev.st = RepEnd(EvNode, [i |-> ev.i, vals |-> <<>>]).st

\* The children of a Chain were tried as SeqABC.itr_for_try tries them: all
\* of them unless one failed, the cursor where the last one left it.
ChainMatched ==
    LET n == Len(ev.log)
    IN  /\ \/ n = Len(EvNode.kids) /\ (n > 0 => ev.log[n].st = "ok")
           \/ n > 0 /\ ev.log[n].st = "exc"
        /\ ev.st = "ok" <=> n = Len(EvNode.kids) /\ (n > 0 => ev.log[n].st = "ok")
        /\ ev.p1 = IF n = 0 THEN ev.p0 ELSE ev.log[n].to

\* C27 as stated: a Rep, an Opt or a Chain matches in the same way with and
\* without a maker, whatever the maker does with the values: the same
\* iterations or children are tried, the cursor ends at the same position
\* and the node succeeds or fails by the same rule.
C27_MakerKeepsMatching ==
    (ev.st # "none" /\ EvNode.res \in {"many", "opt", "chain"}) =>
        /\ ev.kind = "rep" => RepMatched
        /\ ev.kind = "seq" => ChainMatched

----------------------------------------------------------------------------
(* clslang/automaton.py: make_state and state_try_seq *)

MaxAutoLen == 4   \* longest input given to state_try_str, the test's aside

\* EOF = -1
EOF == -1

\* ord(ch) for the characters of the inputs
Ord == [c \in {"(", ")", ",", "a", "e", "f", "g", "h", "i", "o", "p", "r",
               "u", "y"} |->
          CASE c = "(" -> 40 [] c = ")" -> 41 [] c = "," -> 44
            [] c = "a" -> 97 [] c = "e" -> 101 [] c = "f" -> 102
            [] c = "g" -> 103 [] c = "h" -> 104 [] c = "i" -> 105
            [] c = "o" -> 111 [] c = "p" -> 112 [] c = "r" -> 114
            [] c = "u" -> 117 [] c = "y" -> 121]

\* state_try_str: (ord(ch) for ch in seq)
OrdSeq(cs) == [j \in DOMAIN cs |-> Ord[cs[j]]]

\* The makers: CONTINUE = None, IGNORE = False, OUTPUT = True, and the
\* callable `list`.
CONTINUE == "CONTINUE"
IGNORE == "IGNORE"
OUTPUT == "OUTPUT"
ListMaker == "list"

\* The keys of the table given to make_state: None, an int, or a str
KNone == [t |-> "None", n |-> 0, s |-> <<>>]
KInt(n) == [t |-> "int", n |-> n, s |-> <<>>]
KStr(cs) == [t |-> "str", n |-> 0, s |-> cs]

\* One item of a state of that table, chl: (refname, maker); refname is <<>>
\* for None and <<name>> for a state
Tr(chl, ref, mk) == [chl |-> chl, ref |-> ref, mk |-> mk]

\* make_state: `ch = None if chl is None else chl if isinstance(chl, Char)
\* else ... ord(chl[0])`; <<>> is None
ChOf(chl) == CASE chl.t = "None" -> <<>>
               [] chl.t = "int" -> <<chl.n>>
               [] chl.t = "str" -> <<Ord[chl.s[1]]>>

\* make_state: the dict built for the state whose items are trs, as the
\* items under each key; `states[name][ch] = ...` replaces what an earlier
\* item stored under the same ch
StateDict(trs) ==
    [ch \in {ChOf(trs[j].chl) : j \in DOMAIN trs} |->
        LET j == CHOOSE j \in DOMAIN trs :
                    /\ ChOf(trs[j].chl) = ch
                    /\ \A k \in DOMAIN trs : ChOf(trs[k].chl) = ch => k <= j
        IN  [to |-> trs[j].ref, mk |-> trs[j].mk]]

\* make_state: states[name] for the table rstates, a sequence of
\* [name, trs] in the order of the dict
StateOf(rstates, name) ==
    StateDict(rstates[CHOOSE j \in DOMAIN rstates : rstates[j].name = name].trs)

\* make_state: `return list(states.values())[0]`, as the name of that state
MakeState(rstates) == <<rstates[1].name>>

\* (mutant) the default transition is taken although the character has one
LookupDefaultFirst(st, ch) ==
    IF <<>> \in DOMAIN st THEN <<st[<<>>]>>
    ELSE IF <<ch>> \in DOMAIN st THEN <<st[<<ch>>]>>
    ELSE <<>>

\* state_try_seq: `c_state[ch] if ch in c_state else c_state[None]`; <<>> is
\* KeyError
Lookup(st, ch) ==
    IF <<ch>> \in DOMAIN st THEN <<st[<<ch>>]>>
    ELSE IF <<>> \in DOMAIN st THEN <<st[<<>>]>>
    ELSE <<>>

\* (mutant) the character that triggers an output belongs to the token
TokensInclusive(mk, ch_stack, ch) ==
    CASE mk = CONTINUE -> <<>>
      [] mk = IGNORE -> <<>>
      [] mk = OUTPUT -> <<[k |-> "bytes", b |-> Append(ch_stack, ch)]>>
      [] OTHER -> <<[k |-> mk, b |-> Append(ch_stack, ch)]>>

\* state_try_seq: what a transition with the maker mk yields: nothing,
\* bytes(ch_stack) or maker(ch_stack)
Tokens(mk, ch_stack, ch) ==
    CASE mk = CONTINUE -> <<>>
      [] mk = IGNORE -> <<>>
      [] mk = OUTPUT -> <<[k |-> "bytes", b |-> ch_stack]>>
      [] OTHER -> <<[k |-> mk, b |-> ch_stack]>>

\* state_try_seq: ch_stack after the transition
NextStack(mk, ch_stack, ch) ==
    IF mk = CONTINUE THEN Append(ch_stack, ch) ELSE <<>>

\* The table of test(), and the input it is tried on.
TestTable ==
    << [name |-> 0, trs |-> <<Tr(KStr(<<"(">>), <<1>>, IGNORE)>>],
       [name |-> 1, trs |-> <<Tr(KStr(<<"(">>), <<1>>, IGNORE),
                              Tr(KStr(<<")">>), <<2>>, OUTPUT),
                              Tr(KStr(<<",">>), <<1>>, OUTPUT),
                              Tr(KNone, <<1>>, CONTINUE)>>],
       [name |-> 2, trs |-> <<Tr(KInt(EOF), <<>>, IGNORE)>>] >>
TestInput ==
    <<"(", "h", "o", "g", "e", ",", "f", "u", "g", "a", "r", ",",
      "p", "i", "y", "o", "p", "i", "y", "o", ")">>

\* A table whose first state is not the one named 0, with a callable maker,
\* a state without a default and a transition to None.
CallTable ==
    << [name |-> 1, trs |-> <<Tr(KStr(<<"h">>), <<0>>, CONTINUE),
                              Tr(KNone, <<1>>, IGNORE)>>],
       [name |-> 0, trs |-> <<Tr(KStr(<<",">>), <<1>>, ListMaker),
                              Tr(KStr(<<")">>), <<>>, OUTPUT),
                              Tr(KStr(<<"h">>), <<0>>, CONTINUE)>>] >>

\* A table with keys of several characters, two keys with the same first
\* character, an int key and a default transition to None.
KeyTable ==
    << [name |-> 0, trs |-> <<Tr(KStr(<<"(">>), <<0>>, IGNORE),
                              Tr(KStr(<<"(", "h">>), <<0>>, CONTINUE),
                              Tr(KInt(104), <<0>>, CONTINUE),
                              Tr(KStr(<<",", ",">>), <<0>>, OUTPUT),
                              Tr(KNone, <<>>, OUTPUT)>>] >>

Tables == {TestTable, CallTable, KeyTable}
AutoAlpha == {"(", ")", ",", "h"}

\* state_try_str(make_state(table), input): the generator before its first
\* item is asked for.  History: ch, from, to, mk describe the last
\* transition (kind none, step, fail, end), stack0 and out0 the buffer and
\* the tokens before it, mark the number of characters read up to the last
\* transition that was not CONTINUE (mark0: before the last transition).
NewAuto(table, input) ==
    [st |-> "run", table |-> table, input |-> input, pos |-> 0,
     c_state |-> MakeState(table), ch_stack |-> <<>>, out |-> <<>>,
     kind |-> "none", ch |-> 0, from |-> <<>>, to |-> <<>>, mk |-> "",
     stack0 |-> <<>>, out0 |-> <<>>, mark |-> 0, mark0 |-> 0]

AutoRunning == auto.st = "run"
AutoCh == Ord[auto.input[auto.pos + 1]]
AutoFound == Lookup(StateOf(auto.table, auto.c_state[1]), AutoCh)

\* state_try_seq: one pass of `for ch in seq` that finds a transition
AutoStep ==
    /\ AutoRunning /\ auto.pos < Len(auto.input)
    /\ AutoFound # <<>>
    /\ LET t == AutoFound[1]
       IN  auto' = [auto EXCEPT
                !.pos = @ + 1,
                !.c_state = t.to,
                !.ch_stack = NextStack(t.mk, @, AutoCh),
                !.out = @ \o Tokens(t.mk, auto.ch_stack, AutoCh),
                !.st = IF t.to = <<>> THEN "returned" ELSE "run",
                !.kind = "step", !.ch = AutoCh, !.from = auto.c_state,
                !.to = t.to, !.mk = t.mk, !.stack0 = auto.ch_stack,
                !.out0 = auto.out, !.mark0 = auto.mark,
                !.mark = IF t.mk = CONTINUE THEN @ ELSE auto.pos + 1]
    /\ UNCHANGED <<seq, itr, att, last, gram, use_all, stk, ret, result, ev,
                   todo, hist>>

\* state_try_seq: KeyError, `raise StateFailed() from e`
AutoFail ==
    /\ AutoRunning /\ auto.pos < Len(auto.input)
    /\ AutoFound = <<>>
    /\ auto' = [auto EXCEPT !.pos = @ + 1, !.st = "StateFailed",
                            !.kind = "fail", !.ch = AutoCh,
                            !.from = auto.c_state, !.to = <<>>, !.mk = "",
                            !.stack0 = auto.ch_stack,
                            !.out0 = auto.out, !.mark0 = auto.mark]
    /\ UNCHANGED <<seq, itr, att, last, gram, use_all, stk, ret, result, ev,
                   todo, hist>>

\* state_try_seq: seq is exhausted, the generator returns
AutoEnd ==
    /\ AutoRunning /\ auto.pos = Len(auto.input)
    /\ auto' = [auto EXCEPT !.st = "returned", !.kind = "end"]
    /\ UNCHANGED <<seq, itr, att, last, gram, use_all, stk, ret, result, ev,
                   todo, hist>>

InitAuto ==
    /\ \/ \E table \in Tables, input \in SeqsUpTo(AutoAlpha, MaxAutoLen) :
             auto = NewAuto(table, input)
       \/ auto = NewAuto(TestTable, TestInput)
    /\ seq = <<>> /\ itr = <<>> /\ att = <<>> /\ last = NoLast
    /\ todo = <<>> /\ hist = NoHist /\ gram = <<>> /\ use_all = FALSE
    /\ stk = <<>> /\ ret = NoRet /\ ev = NoEv
    /\ result = [st |-> "idle", exc |-> "", vals |-> <<>>]

NextAuto ==
    \/ AutoStep
    \/ AutoFail
    \/ AutoEnd

SpecAuto == InitAuto /\ [][NextAuto]_vars

\* The codes of the characters read after the last transition that was not
\* CONTINUE and before the character of the last transition.
Buffered == OrdSeq(SubSeq(auto.input, auto.mark0 + 1, auto.pos - 1))

\* C28: a CONTINUE transition adds its character to the buffer and emits
\* nothing; an OUTPUT or callable transition emits one token, made of the
\* characters read since the previous transition that was not CONTINUE, its
\* own character left out; an IGNORE transition emits nothing; the buffer is
\* empty after every transition that is not CONTINUE.  The bracket and comma
\* table gives hoge, fugar, piyopiyo for (hoge,fugar,piyopiyo).
C28_TokenizerOutput ==
    /\ auto.st # "none" /\ auto.kind = "step" =>
          /\ auto.mk = CONTINUE =>
                /\ auto.out = auto.out0
                /\ auto.ch_stack = Append(Buffered, auto.ch)
          /\ auto.mk = IGNORE =>
                /\ auto.out = auto.out0
                /\ auto.ch_stack = <<>>
          /\ auto.mk \notin {CONTINUE, IGNORE} =>
                /\ auto.out = Append(auto.out0,
                      [k |-> IF auto.mk = OUTPUT THEN "bytes" ELSE auto.mk,
                       b |-> Buffered])
                /\ auto.ch_stack = <<>>
    /\ (auto.st = "returned" /\ auto.table = TestTable
            /\ auto.input = TestInput) =>
          auto.out = <<[k |-> "bytes", b |-> OrdSeq(<<"h", "o", "g", "e">>)],
                       [k |-> "bytes", b |-> OrdSeq(<<"f", "u", "g", "a", "r">>)],
                       [k |-> "bytes",
                        b |-> OrdSeq(<<"p", "i", "y", "o", "p", "i", "y", "o">>)]>>

\* C28 witness: the test's input has been scanned to its end and three
\* tokens have been emitted, the last by the closing bracket.
C28_Witness ==
    /\ auto.st = "returned" /\ auto.table = TestTable
    /\ auto.input = TestInput /\ auto.pos = Len(TestInput)
    /\ Len(auto.out) = 3 /\ auto.mk = OUTPUT

\* C28 witness for a callable maker: list(ch_stack) was emitted for the
\* characters before a comma.
C28_WitnessCallable ==
    /\ auto.st = "run" /\ auto.kind = "step" /\ auto.mk = ListMaker
    /\ auto.out = Append(auto.out0, [k |-> "list", b |-> <<Ord["h"], Ord["h"]>>])

\* The items of the state the last transition started in, as given to
\* make_state.
FromItems ==
    auto.table[CHOOSE j \in DOMAIN auto.table :
                  auto.table[j].name = auto.from[1]].trs
\* Those for the character of the last transition, and the default ones.
ExactItems ==
    {j \in DOMAIN FromItems : /\ FromItems[j].chl.t # "None"
                              /\ ChOf(FromItems[j].chl) = <<auto.ch>>}
DefaultItems == {j \in DOMAIN FromItems : FromItems[j].chl.t = "None"}
LastOfItems(S) == CHOOSE j \in S : \A k \in S : k <= j

\* C29: scanning starts in the first state of the table; a transition is
\* the one of the exact character if the state has one and the default one
\* otherwise; StateFailed is raised exactly when the state has neither; the
\* scan stops at a transition to None, whatever input remains, and
\* otherwise only at the end of the input.
C29_TokenizerTransitions ==
    auto.st # "none" =>
        /\ auto.kind = "none" => auto.c_state = <<auto.table[1].name>>
        /\ auto.kind = "step" =>
              LET j == IF ExactItems # {} THEN LastOfItems(ExactItems)
                       ELSE LastOfItems(DefaultItems)
              IN  /\ ExactItems # {} \/ DefaultItems # {}
                  /\ auto.to = FromItems[j].ref
                  /\ auto.mk = FromItems[j].mk
                  /\ auto.c_state = auto.to
                  /\ auto.st = IF auto.to = <<>> THEN "returned" ELSE "run"
        /\ auto.kind = "fail" => ExactItems = {} /\ DefaultItems = {}
        /\ auto.st = "StateFailed" <=> auto.kind = "fail"
        /\ auto.kind = "end" => auto.st = "returned" /\ auto.pos = Len(auto.input)
        /\ auto.st = "returned" =>
              \/ auto.kind = "step" /\ auto.to = <<>>
              \/ auto.kind = "end"

\* C29 witness: in a state that has a default transition the one of the
\* exact character was taken.
C29_Witness ==
    /\ auto.st = "run" /\ auto.kind = "step"
    /\ ExactItems # {} /\ DefaultItems # {}
    /\ auto.mk = FromItems[LastOfItems(ExactItems)].mk
    /\ auto.mk # FromItems[LastOfItems(DefaultItems)].mk

\* C29 witness for the stop: a transition to None ended the scan with input
\* left.
C29_WitnessStop ==
    /\ auto.st = "returned" /\ auto.kind = "step" /\ auto.to = <<>>
    /\ auto.pos < Len(auto.input)

\* C29 witness for the failure: StateFailed after a token had been emitted.
C29_WitnessFailed ==
    /\ auto.st = "StateFailed" /\ auto.out # <<>>

====
